---- MODULE Spec2Model ----
(***************************************************************************)
(* Permutation-based differential abundance testing with Benjamini-        *)
(* Hochberg correction, as implemented by                                  *)
(*   scripts/analysis/prjdb36442_metaphlan_basic_analysis.py               *)
(*   scripts/analysis/prjdb36442_humann_pathabundance_basic_analysis.py    *)
(*   scripts/analysis/build_module_stats.py                                *)
(*                                                                         *)
(* Python floats are modelled as exact rationals [n |-> numerator,         *)
(* d |-> denominator] in lowest terms with d > 0; float("nan") is the      *)
(* record with d = 0.  Binary rounding of IEEE-754 doubles is not          *)
(* modelled.                                                               *)
(***************************************************************************)
EXTENDS Integers, Sequences, FiniteSets, TLC

(***************************************************************************)
(* Bounds of the model.                                                    *)
(***************************************************************************)
\* longest p-value list handed to _bh_fdr
MaxLen == 3
\* p-values are drawn from the grid 0/PGrid .. PGrid/PGrid
PGrid == 3
\* sample columns of the abundance matrix
MaxSamples == 3
\* largest --n-perm
MaxPerm == 2
\* feature rows read from the matrix in one run
MaxRows == 2
\* rows of the merged pathway table handed to build_module_stats
MaxTblRows == 3
\* rows of the module membership table
MaxMembers == 2
\* --n-perm of the end-to-end scenario
ScenarioPerm == 100
\* pieces of a sample column name
MaxTokens == 3

(***************************************************************************)
(* Float arithmetic as exact rationals.                                    *)
(***************************************************************************)
Abs(x) == IF x < 0 THEN -x ELSE x

RECURSIVE Gcd(_, _)
Gcd(a, b) == IF b = 0 THEN a ELSE Gcd(b, a % b)

NaN == [n |-> 0, d |-> 0]

IsNaN(x) == x.d = 0

\* the float n/d (d # 0)
Frac(n, d) ==
    LET g == Gcd(Abs(n), Abs(d))
        s == IF d < 0 THEN -1 ELSE 1
    IN  [n |-> s * (n \div g), d |-> s * (d \div g)]

Flt(i) == [n |-> i, d |-> 1]

FAdd(x, y) ==
    IF IsNaN(x) \/ IsNaN(y) THEN NaN ELSE Frac(x.n * y.d + y.n * x.d, x.d * y.d)

FSub(x, y) ==
    IF IsNaN(x) \/ IsNaN(y) THEN NaN ELSE Frac(x.n * y.d - y.n * x.d, x.d * y.d)

FMul(x, y) ==
    IF IsNaN(x) \/ IsNaN(y) THEN NaN ELSE Frac(x.n * y.n, x.d * y.d)

\* x / y for y # 0
FDiv(x, y) ==
    IF IsNaN(x) \/ IsNaN(y) THEN NaN ELSE Frac(x.n * y.d, x.d * y.n)

\* comparisons are False as soon as one side is NaN
FLe(x, y) == ~IsNaN(x) /\ ~IsNaN(y) /\ x.n * y.d <= y.n * x.d

FLt(x, y) == ~IsNaN(x) /\ ~IsNaN(y) /\ x.n * y.d < y.n * x.d

FGe(x, y) == FLe(y, x)

FAbs(x) == IF IsNaN(x) THEN NaN ELSE [n |-> Abs(x.n), d |-> x.d]

\* Python's min(a, b): b if b < a else a
FMin(a, b) == IF FLt(b, a) THEN b ELSE a

(***************************************************************************)
(* _bh_fdr: Benjamini-Hochberg q-values.  Positions are 1-based here       *)
(* (Python's index i is position i + 1).                                   *)
(***************************************************************************)
\* [(i, p) for i, p in enumerate(pvals) if not math.isnan(p)]
RECURSIVE BhFilter(_, _)
BhFilter(pvals, i) ==
    IF i > Len(pvals) THEN <<>>
    ELSE IF IsNaN(pvals[i]) THEN BhFilter(pvals, i + 1)
    ELSE <<[i |-> i, p |-> pvals[i]]>> \o BhFilter(pvals, i + 1)

\* list.sort(key=lambda x: x[1]): stable, so ties keep their input order
RECURSIVE BhInsert(_, _)
BhInsert(sorted, e) ==
    IF sorted = <<>> THEN <<e>>
    ELSE IF FLt(e.p, Head(sorted).p) THEN <<e>> \o sorted
    ELSE <<Head(sorted)>> \o BhInsert(Tail(sorted), e)

RECURSIVE BhSort(_)
BhSort(xs) ==
    IF xs = <<>> THEN <<>>
    ELSE BhInsert(BhSort(SubSeq(xs, 1, Len(xs) - 1)), xs[Len(xs)])

BhIndexedMutNoSort(pvals) == BhFilter(pvals, 1)
BhIndexed(pvals) == BhSort(BhFilter(pvals, 1))

\* the number of tests m
BhCountMutNaN(pvals, indexed) == Len(pvals)
BhCount(pvals, indexed) == Len(indexed)

\* val = min(prev, p * m / k)
BhValMutNoEnvelope(prev, p, m, k) == FDiv(FMul(p, Flt(m)), Flt(k))
BhVal(prev, p, m, k) == FMin(prev, FDiv(FMul(p, Flt(m)), Flt(k)))

\* the position that receives val: q[i] = val
BhTargetMutRank(e, k) == k
BhTarget(e, k) == e.i

\* k = m - rank + 1, the ascending rank of the entry being visited
BhKMutRank(m, rank) == rank
BhK(m, rank) == m - rank + 1

\* one iteration of the loop over reversed(indexed), at rank = 1..m
BhIterMutKeepPrev(st, indexed, m, rank) ==
    LET e   == indexed[Len(indexed) + 1 - rank]
        k   == BhK(m, rank)
        val == BhVal(st.prev, e.p, m, k)
    IN  [q |-> [st.q EXCEPT ![BhTarget(e, k)] = val], prev |-> st.prev]
BhIter(st, indexed, m, rank) ==
    LET e   == indexed[Len(indexed) + 1 - rank]
        k   == BhK(m, rank)
        val == BhVal(st.prev, e.p, m, k)
    IN  [q |-> [st.q EXCEPT ![BhTarget(e, k)] = val], prev |-> val]

RECURSIVE BhWalk(_, _, _, _)
BhWalk(st, indexed, m, rank) ==
    IF rank > Len(indexed) THEN st
    ELSE BhWalk(BhIter(st, indexed, m, rank), indexed, m, rank + 1)

_bh_fdr(pvals) ==
    LET indexed == BhIndexed(pvals)
        q0      == [i \in 1..Len(pvals) |-> NaN]
    IN  IF indexed = <<>> THEN q0
        ELSE BhWalk([q |-> q0, prev |-> Flt(1)], indexed,
                    BhCount(pvals, indexed), 1).q

VARIABLES bh_pc, bh_pvals, bh_indexed, bh_q, bh_prev, bh_rank

\* the analysis runs (species-level or pathway-level main), indexed by run
VARIABLES runs, args, table, pc, keep_samples, idx_by_group, rng, perm_subsets,
          line, features, qvals, written

\* the line of the matrix file that a run took as the header: 0 for the
\* first line of the file, k for the data line k, -1 for none
VARIABLES header

\* build_module_stats: the merged pathway table, the data frame df and the
\* relative abundances rel of _build_module_scores
VARIABLES ms_pc, ms_table, ms_df, ms_rel

\* the group table and the membership table it reads, the score rows, the
\* statistics rows and the statistics file it writes
VARIABLES ms_groups, ms_members, ms_scores, ms_stats, ms_file

ms_vars == <<ms_pc, ms_table, ms_df, ms_rel, ms_groups, ms_members, ms_scores, ms_stats,
             ms_file>>

\* one call of _cohens_d(x1, x2): its arguments, the squares of s1 and s2,
\* and the value returned
VARIABLES cd_pc, cd_x1, cd_x2, cd_s, cd_out

cd_vars == <<cd_pc, cd_x1, cd_x2, cd_s, cd_out>>

\* _build_module_direction_validation: the two statistics files, the merged
\* frame and the direction file
VARIABLES dv_pc, dv_chb, dv_ext, dv_merged, dv_out

dv_vars == <<dv_pc, dv_chb, dv_ext, dv_merged, dv_out>>

\* make_figure_boards_v2.py: one call of its _build_module_scores on the
\* inputs of build_module_stats, and the score rows it returns
VARIABLES fig_pc, fig_scores

fig_vars == <<fig_pc, fig_scores>>

\* one sample column name of a table header, and the run name that each of
\* the three analyses looks up in its group table for it
VARIABLES col_pc, col_name, col_humann, col_module, col_metaphlan

col_vars == <<col_pc, col_name, col_humann, col_module, col_metaphlan>>

\* main of build_module_stats.py: its position, the paths and input tables
\* it is given, the files at its three output paths, and its locals
\* stats_cons and stats_exp
VARIABLES mn_pc, mn_in, mn_fs, mn_stats

mn_vars == <<mn_pc, mn_in, mn_fs, mn_stats>>

bh_vars == <<bh_pc, bh_pvals, bh_indexed, bh_q, bh_prev, bh_rank>>

run_vars == <<runs, args, table, pc, keep_samples, idx_by_group, rng,
              perm_subsets, line, features, qvals, written, header>>

vars == <<bh_vars, run_vars, ms_vars, cd_vars, dv_vars, fig_vars, col_vars, mn_vars>>

\* what a step of one part leaves alone: the variables of the other parts
not_bh_vars == <<run_vars, ms_vars, cd_vars, dv_vars, fig_vars, col_vars, mn_vars>>
not_run_vars == <<bh_vars, ms_vars, cd_vars, dv_vars, fig_vars, col_vars, mn_vars>>
not_ms_vars == <<bh_vars, run_vars, cd_vars, dv_vars, fig_vars, col_vars, mn_vars>>
not_cd_vars == <<bh_vars, run_vars, ms_vars, dv_vars, fig_vars, col_vars, mn_vars>>
not_dv_vars == <<bh_vars, run_vars, ms_vars, cd_vars, fig_vars, col_vars, mn_vars>>
not_fig_vars == <<bh_vars, run_vars, cd_vars, dv_vars, col_vars, mn_vars>>
not_col_vars == <<bh_vars, run_vars, ms_vars, cd_vars, dv_vars, fig_vars, mn_vars>>
not_mn_vars == <<bh_vars, run_vars, ms_vars, cd_vars, dv_vars, fig_vars, col_vars>>

\* build_module_stats: the two side tables, and what comes after rel
ms_in == <<ms_groups, ms_members>>
ms_out == <<ms_scores, ms_stats, ms_file>>

\* build_module_stats is not running
MsIdle ==
    /\ ms_pc = "idle"
    /\ ms_table = <<>>
    /\ ms_df = <<>>
    /\ ms_rel = <<>>
    /\ ms_groups = <<>>
    /\ ms_members = <<>>
    /\ ms_scores = <<>>
    /\ ms_stats = <<>>
    /\ ms_file = <<>>

\* main of build_module_stats.py is not running
MainIdle ==
    /\ mn_pc = "idle"
    /\ mn_in = <<>>
    /\ mn_fs = <<>>
    /\ mn_stats = <<>>

\* no column name is being resolved on its own
ColIdle ==
    /\ col_pc = "idle"
    /\ col_name = <<>>
    /\ col_humann = <<>>
    /\ col_module = <<>>
    /\ col_metaphlan = <<>>

\* the figure generator is not running
FigIdle ==
    /\ fig_pc = "idle"
    /\ fig_scores = <<>>

\* the direction validation is not running
DvIdle ==
    /\ dv_pc = "idle"
    /\ dv_chb = <<>>
    /\ dv_ext = <<>>
    /\ dv_merged = <<>>
    /\ dv_out = <<>>

\* no call of _cohens_d on its own is in progress
CdIdle ==
    /\ cd_pc = "idle"
    /\ cd_x1 = <<>>
    /\ cd_x2 = <<>>
    /\ cd_s = <<>>
    /\ cd_out = NaN

\* no call of _bh_fdr on its own is in progress
BhIdle ==
    /\ bh_pc = "idle"
    /\ bh_pvals = <<>>
    /\ bh_indexed = <<>>
    /\ bh_q = <<>>
    /\ bh_prev = Flt(1)
    /\ bh_rank = 0

\* no analysis run exists
RunIdle ==
    /\ runs = {}
    /\ args = <<>>
    /\ table = <<>>
    /\ pc = <<>>
    /\ keep_samples = <<>>
    /\ idx_by_group = <<>>
    /\ rng = <<>>
    /\ perm_subsets = <<>>
    /\ line = <<>>
    /\ features = <<>>
    /\ qvals = <<>>
    /\ written = <<>>
    /\ header = <<>>

\* p-values on the grid, and NaN for "no test performed"
PValues == {Frac(a, PGrid) : a \in 0..PGrid} \cup {NaN}

RECURSIVE SeqsUpTo(_, _)
SeqsUpTo(S, n) ==
    IF n = 0 THEN {<<>>}
    ELSE LET shorter == SeqsUpTo(S, n - 1)
         IN  shorter \cup {Append(s, x) : s \in {t \in shorter : Len(t) = n - 1}, x \in S}

\* the known vector of the FDR corrector's contract
KnownP == <<Frac(1, 100), Frac(2, 100), Frac(3, 100), Frac(4, 100), Frac(50, 100)>>

BhInputs == SeqsUpTo(PValues, MaxLen) \cup {KnownP}

BhInit ==
    /\ bh_pc = "call"
    /\ bh_pvals \in BhInputs
    /\ bh_indexed = <<>>
    /\ bh_q = <<>>
    /\ bh_prev = Flt(1)
    /\ bh_rank = 0
    /\ RunIdle
    /\ MsIdle
    /\ CdIdle
    /\ DvIdle
    /\ MainIdle
    /\ ColIdle
    /\ FigIdle

\* lines 54-58: filter, sort, q = [nan] * n
BhStart ==
    /\ bh_pc = "call"
    /\ bh_indexed' = BhIndexed(bh_pvals)
    /\ bh_q' = [i \in 1..Len(bh_pvals) |-> NaN]
    /\ bh_prev' = Flt(1)
    /\ bh_rank' = 1
    /\ bh_pc' = "loop"
    /\ UNCHANGED <<bh_pvals, not_bh_vars>>

\* lines 64-69: one iteration, from the largest p to the smallest
BhLoop ==
    /\ bh_pc = "loop"
    /\ bh_rank <= Len(bh_indexed)
    /\ LET st == BhIter([q |-> bh_q, prev |-> bh_prev], bh_indexed,
                        BhCount(bh_pvals, bh_indexed), bh_rank)
       IN  /\ bh_q' = st.q
           /\ bh_prev' = st.prev
    /\ bh_rank' = bh_rank + 1
    /\ UNCHANGED <<bh_pc, bh_pvals, bh_indexed, not_bh_vars>>

\* lines 59-60 and 71: return q
BhReturn ==
    /\ bh_pc = "loop"
    /\ bh_rank > Len(bh_indexed)
    /\ bh_pc' = "ret"
    /\ UNCHANGED <<bh_pvals, bh_indexed, bh_q, bh_prev, bh_rank, not_bh_vars>>

BhNext == BhStart \/ BhLoop \/ BhReturn

SpecBH == BhInit /\ [][BhNext]_vars

(***************************************************************************)
(* The species-level and pathway-level analyses (main of                   *)
(* prjdb36442_metaphlan_basic_analysis.py and of                           *)
(* prjdb36442_humann_pathabundance_basic_analysis.py).  Lists are 1-based  *)
(* here: index i of keep_samples is Python's index i - 1.                  *)
(***************************************************************************)
Scripts == {"metaphlan", "humann"}

\* --seed: the default and another one
DefaultSeed == 20260205
OtherSeed == DefaultSeed + 2
Seeds == {DefaultSeed, OtherSeed}

\* what run_to_group.get(run, "") gives for a matrix column: a group label of
\* the sample sheet ("X" stands for any label other than M and S), or ""
\* when the sheet has no group for the column
Labels == {"M", "S", "X", ""}

\* "|" in feat, df["feature"].str.contains(r"\|"): the feature keys of the
\* model that hold a '|'
ContainsBar(key) == key \in {"A|g__X"}

\* text of one cell of the matrix
Cells == {"0", "1", "10"}

\* one data line of the matrix, split on tabs: the feature key and one cell
\* per sample column
OneRowTables == {<<[feat |-> "A", cells |-> c]>> : c \in [1..MaxSamples -> Cells]}

\* rows that separate the first columns from the last ones, and a row of zeros
ScenarioA ==
    [feat |-> "A", cells |-> [i \in 1..MaxSamples |-> IF 2 * i <= MaxSamples THEN "10" ELSE "1"]]

ScenarioB ==
    [feat |-> "B", cells |-> [i \in 1..MaxSamples |-> IF 2 * i <= MaxSamples THEN "1" ELSE "10"]]

ZeroRow == [feat |-> "C", cells |-> [i \in 1..MaxSamples |-> "0"]]

ScenarioRows == {ScenarioA, ScenarioB, ZeroRow}

\* the rows of a HUMAnN table that are no pathway totals: the two sentinel
\* rows and a stratified row, next to a pathway row
KeyRows ==
    {[feat |-> k, cells |-> ScenarioA.cells] : k \in {"A", "A|g__X", "UNMAPPED", "UNINTEGRATED"}}

\* float(parts[pos]), 0.0 on ValueError or IndexError
ParseFloat(cell) ==
    CASE cell = "0" -> 0
      [] cell = "1" -> 1
      [] cell = "10" -> 10
      [] OTHER -> 0

\* the value that the pseudocount is added to: v for the pathway table,
\* v / 100.0 for the species table (percentages)
LogArg(script, v) == IF script = "humann" THEN Flt(v) ELSE Frac(v, 100)

\* math.log(x + 1e-9), in thousandths
LogPseudo(x) ==
    CASE x = Flt(0) -> -20723
      [] x = Frac(1, 100) -> -4605
      [] x = Frac(1, 10) -> -2303
      [] x = Flt(1) -> 0
      [] x = Flt(10) -> 2303

\* math.log of the value plus the default pseudocount 1e-9, in thousandths:
\* log(v + 1e-9) for the pathway table, log(v / 100.0 + 1e-9) for the
\* species table
LogOf(script, v) == LogPseudo(LogArg(script, v))

\* sum(xs[j] for j in idx[:k])
RECURSIVE SumAt(_, _, _)
SumAt(xs, idx, k) == IF k = 0 THEN 0 ELSE xs[idx[k]] + SumAt(xs, idx, k - 1)

\* sum(xs)
RECURSIVE SumTo(_, _)
SumTo(xs, k) == IF k = 0 THEN 0 ELSE xs[k] + SumTo(xs, k - 1)

RECURSIVE SelectIdx(_, _)
\* the positions i of 1..Len(s), in order, with P(s[i]) for the set P
SelectIdx(s, P) ==
    IF s = <<>> THEN <<>>
    ELSE LET rest == SelectIdx(SubSeq(s, 1, Len(s) - 1), P)
         IN  IF s[Len(s)] \in P THEN Append(rest, Len(s)) ELSE rest

\* keep_samples: the matrix columns with a non-empty group, in header order
KeepSamples(groups) == SelectIdx(groups, {g \in Labels : g # ""})

\* idx_by_group: positions in keep_samples of the samples labelled M, and S
IdxByGroup(groups, keep) ==
    LET kg == [i \in 1..Len(keep) |-> groups[keep[i]]]
    IN  [M |-> SelectIdx(kg, {"M"}), S |-> SelectIdx(kg, {"S"})]

\* all_idx = list(range(len(keep_samples)))
AllIdx(keep) == [i \in 1..Len(keep) |-> i]

(***************************************************************************)
(* random.Random: a deterministic generator, its output and next state     *)
(* functions of its state alone.                                           *)
(***************************************************************************)
\* random.Random(args.seed); entropy is what the operating system would
\* supply to an unseeded generator
RngSeedMutUnseeded(seed, entropy) == entropy % 64
RngSeed(seed, entropy) == seed % 64

RngNext(s) == (s * 13 + 7) % 64

\* _randbelow(n) on the state after stepping
RandBelow(s, n) == (s \div 4) % n

\* rng.sample(population, k): k draws without replacement from a pool
RECURSIVE SampleLoop(_, _, _, _, _)
SampleLoop(s, pool, k, i, result) ==
    IF i = k THEN [rng |-> s, out |-> result]
    ELSE LET n  == Len(pool)
             s1 == RngNext(s)
             j  == RandBelow(s1, n - i) + 1
         IN  SampleLoop(s1, [pool EXCEPT ![j] = pool[n - i]], k, i + 1,
                        Append(result, pool[j]))

Sample(s, population, k) == SampleLoop(s, population, k, 0, <<>>)

(***************************************************************************)
(* The per-feature test.                                                   *)
(***************************************************************************)
\* vals: the parsed cells of the kept columns
RowVals(row, keep) == [i \in 1..Len(keep) |-> ParseFloat(row.cells[keep[i]])]

\* prev_m, prev_s: the kept columns with v > 0.0, counted under "M" when the
\* group of the column is M and under "S" otherwise
PrevCounts(groups, keep, vals) ==
    [M |-> Cardinality({i \in 1..Len(keep) : vals[i] > 0 /\ groups[keep[i]] = "M"}),
     S |-> Cardinality({i \in 1..Len(keep) : vals[i] > 0 /\ groups[keep[i]] # "M"})]

\* logs, mean_log, clr.  The CLR values are carried as integers in units of
\* 1 / (1000 * n), n = len(logs): clr[i] = logs[i] - sum(logs) / n
Clr(script, vals) ==
    LET n    == Len(vals)
        logs == [i \in 1..n |-> LogOf(script, vals[i])]
        tot  == SumTo(logs, n)
    IN  [i \in 1..n |-> n * logs[i] - tot]

\* _mean(clr_s) - _mean(clr_m), clr_g = [clr[i] for i in idx_by_group[g]]
Obs(clr, idx) ==
    Frac(SumAt(clr, idx.S, Len(idx.S)) * Len(idx.M)
            - SumAt(clr, idx.M, Len(idx.M)) * Len(idx.S),
         Len(idx.S) * Len(idx.M))

\* diff = (ssum / n_s) - ((total - ssum) / n_m)
PermDiffMutNoComplement(clr, subset, n_s, n_m) ==
    Frac(SumAt(clr, subset, Len(subset)), n_s)
PermDiff(clr, subset, n_s, n_m) ==
    LET total == SumTo(clr, Len(clr))
        ssum  == SumAt(clr, subset, Len(subset))
    IN  Frac(ssum * n_m - (total - ssum) * n_s, n_s * n_m)

\* extreme: the number of subsets, of the first k, with abs(diff) >= abs(obs)
CountExtreme(clr, subsets, k, obs, n_s, n_m) ==
    Cardinality({j \in 1..k : FGe(FAbs(PermDiff(clr, subsets[j], n_s, n_m)), FAbs(obs))})

\* p_perm = (extreme + 1) / (args.n_perm + 1)
PPermMutNoSmoothing(extreme, n_perm) == Frac(extreme, n_perm + 1)
PPerm(extreme, n_perm) == Frac(extreme + 1, n_perm + 1)

RECURSIVE SampleMany(_, _, _, _)
SampleMany(s, population, k, count) ==
    IF count = 0 THEN [rng |-> s, subsets |-> <<>>]
    ELSE LET one  == Sample(s, population, k)
             rest == SampleMany(one.rng, population, k, count - 1)
         IN  [rng |-> rest.rng, subsets |-> <<one.out>> \o rest.subsets]

\* the body of the loop over the data lines for one row: the statistics of
\* the row, and the generator and the subset list it leaves behind
FeatureTestMutResample(script, n_perm, row, keep, idx, gen, subsets) ==
    CHOOSE res \in
        {[row |-> row,
          clr |-> clr,
          p_perm |-> PPerm(CountExtreme(clr, fresh.subsets, Len(fresh.subsets),
                                        Obs(clr, idx), Len(idx.S), Len(idx.M)), n_perm),
          rng |-> fresh.rng,
          perm_subsets |-> fresh.subsets] :
            clr \in {Clr(script, RowVals(row, keep))},
            fresh \in {SampleMany(gen, AllIdx(keep), Len(idx.S), n_perm)}} : TRUE
FeatureTest(script, n_perm, row, keep, idx, gen, subsets) ==
    CHOOSE res \in
        {[row |-> row,
          clr |-> clr,
          p_perm |-> PPerm(CountExtreme(clr, subsets, Len(subsets),
                                        Obs(clr, idx), Len(idx.S), Len(idx.M)), n_perm),
          rng |-> gen,
          perm_subsets |-> subsets] :
            clr \in {Clr(script, RowVals(row, keep))}} : TRUE

\* command lines: the script, --seed, --n-perm, and the group that the sample
\* sheet gives each matrix column
ArgsSet ==
    [script : Scripts, seed : Seeds, entropy : {11, 12}, n_perm : 0..MaxPerm,
     groups : [1..MaxSamples -> Labels], drop_stratified : {FALSE}, hash_header : {FALSE}]

\* command lines of runs on a table with sentinel and stratified rows, with
\* and without --drop-stratified (a flag of the pathway script only)
KeyArgsSet ==
    {a \in [script : Scripts, seed : {DefaultSeed}, entropy : {11}, n_perm : 0..MaxPerm,
            groups : [1..MaxSamples -> {"M", "S"}], drop_stratified : BOOLEAN,
            hash_header : {FALSE}] :
        a.drop_stratified => a.script = "humann"}

\* command lines of runs on a file whose header line begins with '#' or not
HeaderArgsSet ==
    [script : Scripts, seed : {DefaultSeed}, entropy : {11}, n_perm : 0..MaxPerm,
     groups : [1..MaxSamples -> {"M", "S"}], drop_stratified : {FALSE}, hash_header : BOOLEAN]

KeyTables == SeqsUpTo(KeyRows, MaxRows)

\* the data lines of the matrix: every one-row table, and the tables of up
\* to MaxRows scenario rows
Tables == OneRowTables \cup SeqsUpTo(ScenarioRows, MaxRows)

\* [fs.p_perm for fs in features]
PvalsOf(fs) == [i \in 1..Len(fs) |-> fs[i].p_perm]

RunStart(R) ==
    /\ runs = R
    /\ pc = [r \in R |-> "start"]
    /\ keep_samples = [r \in R |-> <<>>]
    /\ idx_by_group = [r \in R |-> [M |-> <<>>, S |-> <<>>]]
    /\ rng = [r \in R |-> 0]
    /\ perm_subsets = [r \in R |-> <<>>]
    /\ line = [r \in R |-> 0]
    /\ features = [r \in R |-> <<>>]
    /\ qvals = [r \in R |-> <<>>]
    /\ written = [r \in R |-> <<>>]
    /\ header = [r \in R |-> -1]

\* one run with the default seed
Init ==
    /\ BhIdle
    /\ MsIdle
    /\ CdIdle
    /\ DvIdle
    /\ MainIdle
    /\ ColIdle
    /\ FigIdle
    /\ RunStart({1})
    /\ args \in [{1} -> {a \in ArgsSet : a.entropy = 11 /\ a.seed = DefaultSeed}]
    /\ table \in Tables

\* the header loop: a line that starts with '#' is passed over and the first
\* other line is the header.  When the header line of the file starts with
\* '#', that is the first data line: the pathway script finds none of its
\* cells in the sample sheet, the species script finds a first column other
\* than clade_name, and without a data line no header is read; the run exits
HeaderTaken(tbl, hash_header) ==
    IF ~hash_header THEN 0 ELSE IF tbl = <<>> THEN -1 ELSE 1

\* sample sheet and matrix header up to the permutation setup: keep_samples,
\* idx_by_group, the fatal exits, rng = random.Random(args.seed)
Setup(r) ==
    /\ pc[r] = "start"
    /\ header' = [header EXCEPT ![r] = HeaderTaken(table, args[r].hash_header)]
    /\ IF args[r].hash_header
       THEN /\ pc' = [pc EXCEPT ![r] = "exit"]
            /\ UNCHANGED <<keep_samples, idx_by_group, rng>>
       ELSE \E keep \in {KeepSamples(args[r].groups)} :
            \E idx \in {IdxByGroup(args[r].groups, keep)} :
                /\ keep_samples' = [keep_samples EXCEPT ![r] = keep]
                /\ idx_by_group' = [idx_by_group EXCEPT ![r] = idx]
                /\ IF keep = <<>> \/ Len(idx.M) = 0 \/ Len(idx.S) = 0
                   THEN /\ pc' = [pc EXCEPT ![r] = "exit"]
                        /\ UNCHANGED rng
                   ELSE /\ pc' = [pc EXCEPT ![r] = IF args[r].n_perm > 0 THEN "perm" ELSE "features"]
                        /\ rng' = [rng EXCEPT ![r] = RngSeed(args[r].seed, args[r].entropy)]
    /\ UNCHANGED <<runs, args, table, perm_subsets, line, features, qvals, written,
                   not_run_vars>>

\* the generator that the name rng of a run refers to: the object the run
\* made for itself, a local of its main
GeneratorOfMutShared(gens, r) == gens[CHOOSE first \in DOMAIN gens : \A o \in DOMAIN gens : first <= o]
GeneratorOf(gens, r) == gens[r]

\* perm_subsets.append(rng.sample(all_idx, k=n_s))
DrawSubset(r) ==
    /\ pc[r] = "perm"
    /\ \E one \in {Sample(GeneratorOf(rng, r), AllIdx(keep_samples[r]),
                           Len(idx_by_group[r].S))} :
           /\ rng' = [rng EXCEPT ![r] = one.rng]
           /\ perm_subsets' = [perm_subsets EXCEPT ![r] = Append(@, one.out)]
           /\ pc' = [pc EXCEPT ![r] = IF Len(perm_subsets[r]) + 1 < args[r].n_perm
                                      THEN "perm" ELSE "features"]
    /\ UNCHANGED <<runs, args, table, keep_samples, idx_by_group, line, features, qvals,
                   written, header, not_run_vars>>

\* the next data line: skipped when --drop-stratified is given and the key
\* holds a '|', otherwise its statistics are appended to features
ProcessFeature(r) ==
    /\ pc[r] = "features"
    /\ line[r] < Len(table)
    /\ IF args[r].script = "humann" /\ args[r].drop_stratified
          /\ ContainsBar(table[line[r] + 1].feat)
       THEN UNCHANGED <<features, rng, perm_subsets>>
       ELSE \E res \in {FeatureTest(args[r].script, args[r].n_perm, table[line[r] + 1],
                                    keep_samples[r], idx_by_group[r], rng[r],
                                    perm_subsets[r])} :
               /\ features' = [features EXCEPT ![r] =
                                  Append(@, [feat |-> res.row.feat, line |-> line[r] + 1,
                                             clr |-> res.clr,
                                             entered |-> [j \in 1..Len(keep_samples[r]) |->
                                                 LogArg(args[r].script,
                                                        RowVals(res.row, keep_samples[r])[j])],
                                             prev |-> PrevCounts(args[r].groups, keep_samples[r],
                                                                 RowVals(res.row, keep_samples[r])),
                                             p_perm |-> res.p_perm])]
               /\ rng' = [rng EXCEPT ![r] = res.rng]
               /\ perm_subsets' = [perm_subsets EXCEPT ![r] = res.perm_subsets]
    /\ line' = [line EXCEPT ![r] = @ + 1]
    /\ UNCHANGED <<runs, args, table, pc, keep_samples, idx_by_group, qvals, written,
                   header, not_run_vars>>

(***************************************************************************)
(* Text of the output cells.  A number written with a fixed number of      *)
(* decimals is carried as the integer of its last decimal place.           *)
(***************************************************************************)
RECURSIVE Pow10(_)
Pow10(k) == IF k = 0 THEN 1 ELSE 10 * Pow10(k - 1)

\* the empty string
EmptyText == [kind |-> "empty", units |-> 0]

\* the first decimals of rem / d (rem < d) as an integer, by long division,
\* rounded on the decimal that follows
RECURSIVE FixedDigits(_, _, _)
FixedDigits(rem, d, places) ==
    IF places = 0 THEN (IF 2 * rem >= d THEN 1 ELSE 0)
    ELSE ((rem * 10) \div d) * Pow10(places - 1) + FixedDigits((rem * 10) % d, d, places - 1)

\* f"{x:.<places>f}" of a non-negative x: "nan" for NaN, otherwise x rounded
\* to the given number of decimals
FormatFixed(x, places) ==
    IF IsNaN(x) THEN [kind |-> "nan", units |-> 0]
    ELSE [kind |-> "number",
          units |-> (x.n \div x.d) * Pow10(places) + FixedDigits(x.n % x.d, x.d, places)]

\* row["q_fdr"] = f"{q:.8f}" if not math.isnan(q) else ""
QCellMutUnguarded(q) == FormatFixed(q, 8)
QCell(q) == IF ~IsNaN(q) THEN FormatFixed(q, 8) ELSE EmptyText

\* the rows handed to the csv writer
OutputRows(fs, qs) ==
    [i \in 1..Len(fs) |->
        [feature |-> fs[i].feat,
         prev_M |-> fs[i].prev.M,
         prev_S |-> fs[i].prev.S,
         p_perm |-> FormatFixed(fs[i].p_perm, 8),
         q_fdr |-> QCell(qs[i])]]

\* end of the matrix: qvals = _bh_fdr(pvals), the table is written
Finish(r) ==
    /\ pc[r] = "features"
    /\ line[r] = Len(table)
    /\ \E qs \in {_bh_fdr(PvalsOf(features[r]))} :
           /\ qvals' = [qvals EXCEPT ![r] = qs]
           /\ written' = [written EXCEPT ![r] = OutputRows(features[r], qs)]
    /\ pc' = [pc EXCEPT ![r] = "done"]
    /\ UNCHANGED <<runs, args, table, keep_samples, idx_by_group, rng, perm_subsets,
                   line, features, header, not_run_vars>>

Next ==
    \E r \in runs :
        \/ Setup(r)
        \/ DrawSubset(r)
        \/ ProcessFeature(r)
        \/ Finish(r)

Spec == Init /\ [][Next]_vars

\* two runs of the same analysis on the same sample sheet and matrix, each
\* with its own seed, interleaved step by step
PairInit ==
    /\ BhIdle
    /\ MsIdle
    /\ CdIdle
    /\ DvIdle
    /\ MainIdle
    /\ ColIdle
    /\ FigIdle
    /\ RunStart({1, 2})
    /\ args \in {a \in [{1, 2} -> ArgsSet] :
                    /\ a[1].entropy = 11
                    /\ a[2].entropy = 12
                    /\ a[1].script = a[2].script
                    /\ a[1].n_perm = a[2].n_perm
                    /\ a[1].groups = a[2].groups}
    /\ table = <<ScenarioA, ScenarioB>>

SpecPair == PairInit /\ [][Next]_vars

\* one run on a table with sentinel and stratified rows
KeysInit ==
    /\ BhIdle
    /\ MsIdle
    /\ CdIdle
    /\ DvIdle
    /\ MainIdle
    /\ ColIdle
    /\ FigIdle
    /\ RunStart({1})
    /\ args \in [{1} -> KeyArgsSet]
    /\ table \in KeyTables

SpecKeys == KeysInit /\ [][Next]_vars

\* one run on a file whose header line may begin with '#'
HeaderInit ==
    /\ BhIdle
    /\ MsIdle
    /\ CdIdle
    /\ DvIdle
    /\ MainIdle
    /\ ColIdle
    /\ FigIdle
    /\ RunStart({1})
    /\ args \in [{1} -> HeaderArgsSet]
    /\ table \in Tables

SpecHeader == HeaderInit /\ [][Next]_vars

\* the end-to-end scenario: four sample columns labelled M, M, S, S, the rows
\* A, B and UNMAPPED
E2EGroups == <<"M", "M", "S", "S">>

E2ERowA == [feat |-> "A", cells |-> <<"10", "10", "1", "1">>]

E2ERowB == [feat |-> "B", cells |-> <<"1", "1", "10", "10">>]

E2ERowUnmapped == [feat |-> "UNMAPPED", cells |-> <<"1", "1", "1", "1">>]

E2ETables == {<<E2ERowA, E2ERowB, E2ERowUnmapped>>, <<E2ERowUnmapped, E2ERowB, E2ERowA>>}

\* one seed for each state the generator can start in
E2ESeeds == {DefaultSeed + k : k \in 0..63}

E2EInit ==
    /\ BhIdle
    /\ MsIdle
    /\ CdIdle
    /\ DvIdle
    /\ MainIdle
    /\ ColIdle
    /\ FigIdle
    /\ RunStart({1})
    /\ args \in [{1} -> [script : Scripts, seed : E2ESeeds, entropy : {11},
                          n_perm : {ScenarioPerm}, groups : {E2EGroups},
                          drop_stratified : {FALSE}, hash_header : {FALSE}]]
    /\ table \in E2ETables

SpecE2E == E2EInit /\ [][Next]_vars

(***************************************************************************)
(* build_module_stats.py: _build_module_scores.                            *)
(***************************************************************************)
\* feature keys of the merged pathway table
ModuleKeys == {"A", "B", "A|g__X", "UNMAPPED", "UNINTEGRATED"}

\* raw abundances (non-negative)
ModuleCells == {0, 1}

\* the sample columns of the table (every column but the feature column)
RunCols == {"R1", "R2"}

\* rows of the matrices that vary freely: one pathway key, the stratified key
\* and the two sentinel keys
ModuleRows == [feature : ModuleKeys \ {"B"}, vals : [RunCols -> ModuleCells]]

\* df[~mask]: the rows whose feature key is not in drop
RECURSIVE FilterRows(_, _, _)
FilterRows(df, drop, k) ==
    IF k > Len(df) THEN <<>>
    ELSE IF df[k].feature \notin drop THEN <<df[k]>> \o FilterRows(df, drop, k + 1)
    ELSE FilterRows(df, drop, k + 1)

\* df = df[~df["feature"].str.contains(r"\|", regex=True)]
DropStratified(df) == FilterRows(df, {key \in ModuleKeys : ContainsBar(key)}, 1)

\* df = df[~df["feature"].isin(["UNMAPPED", "UNINTEGRATED"])]
DropSentinels(df) == FilterRows(df, {"UNMAPPED", "UNINTEGRATED"}, 1)

\* df[run_cols].sum(axis=0)[c]
RECURSIVE ColSum(_, _, _)
ColSum(df, c, k) == IF k = 0 THEN 0 ELSE df[k].vals[c] + ColSum(df, c, k - 1)

\* df[run_cols].sum(axis=1)[i]
RECURSIVE RowSum(_, _, _)
RowSum(df, i, cols) ==
    IF cols = {} THEN 0
    ELSE LET c == CHOOSE x \in cols : TRUE IN df[i].vals[c] + RowSum(df, i, cols \ {c})

\* pandas division of non-negative numbers: 0 / 0 is NaN
PdDiv(v, total) == IF total = 0 THEN NaN ELSE Frac(v, total)

\* one entry of rel = df[run_cols].div(df[run_cols].sum(axis=0), axis=1)
RelValueMutRowSum(df, i, c) == PdDiv(df[i].vals[c], RowSum(df, i, RunCols))
RelValue(df, i, c) == PdDiv(df[i].vals[c], ColSum(df, c, Len(df)))

Rel(df) ==
    [i \in 1..Len(df) |->
        [feature |-> df[i].feature, vals |-> [c \in RunCols |-> RelValue(df, i, c)]]]

\* the columns in header order, and the module names in sorted order
RunOrder == <<"R1", "R2">>
ModuleOrder == <<"M1", "M2">>

\* rows of the membership table: "Z" is a pathway that is not in the matrix
MemberRows == [module : {"M1", "M2"}, feature : {"A", "B", "Z"}]

\* matrices for the runs that vary the group table and the membership table
ScoreTables ==
    {<<[feature |-> "A", vals |-> [c \in RunCols |-> 1]],
       [feature |-> "B", vals |-> [c \in RunCols |-> IF c = "R1" THEN 1 ELSE 0]]>>,
     <<[feature |-> "UNMAPPED", vals |-> [c \in RunCols |-> 1]],
       [feature |-> "A", vals |-> [c \in RunCols |-> IF c = "R1" THEN 1 ELSE 0]]>>}

\* the inputs: every matrix with one group table and one membership table,
\* and every group table and membership table with a few matrices
ModuleInputs ==
    [table : SeqsUpTo(ModuleRows, MaxTblRows),
     groups : {[c \in RunCols |-> IF c = "R1" THEN "M" ELSE "S"]},
     members : {<<[module |-> "M1", feature |-> "A"]>>}]
    \cup
    [table : ScoreTables,
     groups : [RunCols -> Labels],
     members : SeqsUpTo(MemberRows, MaxMembers)]

MsInit ==
    /\ BhIdle
    /\ RunIdle
    /\ CdIdle
    /\ DvIdle
    /\ MainIdle
    /\ ColIdle
    /\ FigIdle
    /\ ms_pc = "start"
    /\ \E in \in ModuleInputs :
           /\ ms_table = in.table
           /\ ms_groups = in.groups
           /\ ms_members = in.members
    /\ ms_df = <<>>
    /\ ms_rel = <<>>
    /\ ms_scores = <<>>
    /\ ms_stats = <<>>
    /\ ms_file = <<>>

\* line 61: df = pd.read_csv(merged_pathabundance, sep="\t")
MsRead ==
    /\ ms_pc = "start"
    /\ ms_df' = ms_table
    /\ ms_pc' = "read"
    /\ UNCHANGED <<ms_table, ms_rel, ms_in, ms_out, not_ms_vars>>

\* line 62
MsDropStratified ==
    /\ ms_pc = "read"
    /\ ms_df' = DropStratified(ms_df)
    /\ ms_pc' = "unstratified"
    /\ UNCHANGED <<ms_table, ms_rel, ms_in, ms_out, not_ms_vars>>

\* line 63
MsDropSentinels ==
    /\ ms_pc = "unstratified"
    /\ ms_df' = DropSentinels(ms_df)
    /\ ms_pc' = "filtered"
    /\ UNCHANGED <<ms_table, ms_rel, ms_in, ms_out, not_ms_vars>>

\* lines 69-71
MsNormalize ==
    /\ ms_pc = "filtered"
    /\ ms_rel' = Rel(ms_df)
    /\ ms_pc' = "normalized"
    /\ UNCHANGED <<ms_table, ms_df, ms_in, ms_out, not_ms_vars>>

\* modules[module]: the feature column of the membership rows of the module,
\* in table order, repeated rows included
RECURSIVE FeatsOf(_, _, _)
FeatsOf(members, module, k) ==
    IF k > Len(members) THEN <<>>
    ELSE (IF members[k].module = module THEN <<members[k].feature>> ELSE <<>>)
         \o FeatsOf(members, module, k + 1)

\* the rows of rel whose index label is f, in order
RECURSIVE RowsLabelled(_, _, _)
RowsLabelled(rel, f, i) ==
    IF i > Len(rel) THEN <<>>
    ELSE (IF rel[i].feature = f THEN <<i>> ELSE <<>>) \o RowsLabelled(rel, f, i + 1)

\* rel.loc[[f for f in feats if f in rel.index]]: for each label of feats in
\* turn, the rows of rel with that label
RECURSIVE LocRows(_, _, _)
LocRows(rel, feats, k) ==
    IF k > Len(feats) THEN <<>>
    ELSE RowsLabelled(rel, feats[k], 1) \o LocRows(rel, feats, k + 1)

\* .sum(axis=0)[c] over the rows picked: NaN entries are skipped, an empty
\* sum is 0.0
RECURSIVE SumSkipNa(_, _, _, _)
SumSkipNa(rel, picked, c, k) ==
    IF k = 0 THEN Flt(0)
    ELSE LET v == rel[picked[k]].vals[c]
             rest == SumSkipNa(rel, picked, c, k - 1)
         IN  IF IsNaN(v) THEN rest ELSE FAdd(rest, v)

\* the rows appended for one module: none when no member is in the matrix,
\* otherwise one per column whose group is M or S
RECURSIVE RowsOfModule(_, _, _, _, _)
RowsOfModule(rel, picked, groups, module, j) ==
    IF j > Len(RunOrder) THEN <<>>
    ELSE (IF groups[RunOrder[j]] \in {"M", "S"}
          THEN <<[module |-> module, run_accession |-> RunOrder[j],
                  group |-> groups[RunOrder[j]],
                  score |-> SumSkipNa(rel, picked, RunOrder[j], Len(picked))]>>
          ELSE <<>>)
         \o RowsOfModule(rel, picked, groups, module, j + 1)

\* lines 73-87: the score rows of all modules of the membership table
RECURSIVE ScoreRows(_, _, _, _)
ScoreRows(rel, members, groups, k) ==
    IF k > Len(ModuleOrder) THEN <<>>
    ELSE LET picked == LocRows(rel, FeatsOf(members, ModuleOrder[k], 1), 1)
         IN  (IF picked = <<>> THEN <<>>
              ELSE RowsOfModule(rel, picked, groups, ModuleOrder[k], 1))
             \o ScoreRows(rel, members, groups, k + 1)

\* lines 73-87
MsScores ==
    /\ ms_pc = "normalized"
    /\ ms_scores' = ScoreRows(ms_rel, ms_members, ms_groups, 1)
    /\ ms_pc' = "scored"
    /\ UNCHANGED <<ms_table, ms_df, ms_rel, ms_in, ms_stats, ms_file, not_ms_vars>>

(***************************************************************************)
(* _module_stats and _write_tsv.                                           *)
(***************************************************************************)
\* scores.loc[(module == mo) & (group == g), "score"]
RECURSIVE ScoresOf(_, _, _, _)
ScoresOf(scores, mo, g, k) ==
    IF k > Len(scores) THEN <<>>
    ELSE (IF scores[k].module = mo /\ scores[k].group = g THEN <<scores[k].score>> ELSE <<>>)
         \o ScoresOf(scores, mo, g, k + 1)

\* the number of entries of xs below xs[i], ties broken by position
RankIn(xs, i) ==
    Cardinality({j \in 1..Len(xs) : FLt(xs[j], xs[i]) \/ (xs[j] = xs[i] /\ j < i)})

\* np.median of a non-empty list without NaN: the middle value, or the mean
\* of the two middle values
Median(xs) ==
    LET n  == Len(xs)
        at(r) == xs[CHOOSE i \in 1..n : RankIn(xs, i) = r]
    IN  IF n % 2 = 1 THEN at(n \div 2)
        ELSE FDiv(FAdd(at(n \div 2 - 1), at(n \div 2)), Flt(2))

\* what mannwhitneyu(m, s, alternative="two-sided") can return as p for two
\* non-empty samples: some number in (0, 1]
MwuPValues == {Frac(1, 2), Flt(1)}

\* one row of out_rows (lines 95-116); mw is the p-value of the rank test
StatsRow(scores, mo, mw) ==
    LET m == ScoresOf(scores, mo, "M", 1)
        sc == ScoresOf(scores, mo, "S", 1)
        median_m == IF Len(m) > 0 THEN Median(m) ELSE NaN
        median_s == IF Len(sc) > 0 THEN Median(sc) ELSE NaN
    IN  [module |-> mo,
         median_M |-> median_m,
         median_S |-> median_s,
         delta_S_minus_M |-> IF Len(m) > 0 /\ Len(sc) > 0 THEN FSub(median_s, median_m) ELSE NaN,
         p |-> IF Len(m) > 0 /\ Len(sc) > 0 THEN mw ELSE NaN]

\* sorted(scores["module"].unique().tolist())
RECURSIVE ModulesIn(_, _)
ModulesIn(scores, k) ==
    IF k > Len(ModuleOrder) THEN <<>>
    ELSE (IF \E i \in 1..Len(scores) : scores[i].module = ModuleOrder[k]
          THEN <<ModuleOrder[k]>> ELSE <<>>)
         \o ModulesIn(scores, k + 1)

\* lines 94-123: out_rows with the q column
ModuleStats(scores, mw) ==
    LET mods == ModulesIn(scores, 1)
        rows == [k \in 1..Len(mods) |-> StatsRow(scores, mods[k], mw[mods[k]])]
        q    == _bh_fdr([k \in 1..Len(rows) |-> rows[k].p])
    IN  [k \in 1..Len(rows) |->
            [module |-> rows[k].module, median_M |-> rows[k].median_M,
             median_S |-> rows[k].median_S, delta_S_minus_M |-> rows[k].delta_S_minus_M,
             p |-> rows[k].p, q |-> q[k]]]

\* _module_stats: scores["module"] raises KeyError for the frame built from
\* no rows, which has no columns
MsStats ==
    /\ ms_pc = "scored"
    /\ IF ms_scores = <<>>
       THEN /\ ms_pc' = "error"
            /\ UNCHANGED ms_stats
       ELSE /\ ms_pc' = "stats"
            \* mw[mo] is read only for a module with scores in both groups
            /\ \E mw \in [{"M1", "M2"} -> MwuPValues] :
                   /\ \A mo \in {"M1", "M2"} :
                          (ScoresOf(ms_scores, mo, "M", 1) = <<>>
                           \/ ScoresOf(ms_scores, mo, "S", 1) = <<>>) => mw[mo] = Flt(1)
                   /\ ms_stats' = ModuleStats(ms_scores, mw)
    /\ UNCHANGED <<ms_table, ms_df, ms_rel, ms_in, ms_scores, ms_file, not_ms_vars>>

\* a float cell of DataFrame.to_csv: the empty string for NaN (na_rep=""),
\* otherwise the number
PdCellMutNan(x) == [kind |-> IF IsNaN(x) THEN "nan" ELSE "number", value |-> x]
PdCell(x) == [kind |-> IF IsNaN(x) THEN "empty" ELSE "number", value |-> x]

\* df.to_csv(path, sep="\t", index=False)
TsvRows(stats) ==
    [k \in 1..Len(stats) |->
        [module |-> stats[k].module,
         median_M |-> PdCell(stats[k].median_M),
         median_S |-> PdCell(stats[k].median_S),
         delta_S_minus_M |-> PdCell(stats[k].delta_S_minus_M),
         p |-> PdCell(stats[k].p),
         q |-> PdCell(stats[k].q)]]

\* _write_tsv
MsWrite ==
    /\ ms_pc = "stats"
    /\ ms_file' = TsvRows(ms_stats)
    /\ ms_pc' = "written"
    /\ UNCHANGED <<ms_table, ms_df, ms_rel, ms_in, ms_scores, ms_stats, not_ms_vars>>

MsNext ==
    \/ MsRead
    \/ MsDropStratified
    \/ MsDropSentinels
    \/ MsNormalize
    \/ MsScores
    \/ MsStats
    \/ MsWrite

SpecModule == MsInit /\ [][MsNext]_vars

\* the runs that write a statistics table: a pathway-level or species-level
\* run, or a module-level run
SpecTables == (KeysInit \/ MsInit) /\ [][Next \/ MsNext]_vars

(***************************************************************************)
(* make_figure_boards_v2.py: _build_module_scores, called on the merged     *)
(* table, the group table and the membership table of build_module_stats.  *)
(***************************************************************************)
\* .mean(axis=0)[c] over the rows picked: NaN entries are skipped, the mean
\* of no value is NaN
FigMean(rel, picked, c) ==
    LET counted == {k \in 1..Len(picked) : ~IsNaN(rel[picked[k]].vals[c])}
    IN  IF counted = {} THEN NaN
        ELSE FDiv(SumSkipNa(rel, picked, c, Len(picked)), Flt(Cardinality(counted)))

\* the rows appended for one module: one per run of the group table that is
\* a column of rel
RECURSIVE FigRowsOfModule(_, _, _, _, _)
FigRowsOfModule(rel, picked, groups, module, j) ==
    IF j > Len(RunOrder) THEN <<>>
    ELSE (IF groups[RunOrder[j]] # ""
          THEN <<[module |-> module, run_accession |-> RunOrder[j],
                  group |-> groups[RunOrder[j]],
                  score |-> FigMean(rel, picked, RunOrder[j])]>>
          ELSE <<>>)
         \o FigRowsOfModule(rel, picked, groups, module, j + 1)

\* lines 292-308: the score rows of all modules
RECURSIVE FigScoreRows(_, _, _, _)
FigScoreRows(rel, members, groups, k) ==
    IF k > Len(ModuleOrder) THEN <<>>
    ELSE LET picked == LocRows(rel, FeatsOf(members, ModuleOrder[k], 1), 1)
         IN  (IF picked = <<>> THEN <<>>
              ELSE FigRowsOfModule(rel, picked, groups, ModuleOrder[k], 1))
             \o FigScoreRows(rel, members, groups, k + 1)

\* both programs are run on the same three tables
FigInit ==
    /\ BhIdle
    /\ RunIdle
    /\ CdIdle
    /\ DvIdle
    /\ MainIdle
    /\ ColIdle
    /\ ms_pc = "start"
    /\ \E in \in [table : ScoreTables, groups : [RunCols -> Labels],
                  members : SeqsUpTo(MemberRows, MaxMembers)] :
           /\ ms_table = in.table
           /\ ms_groups = in.groups
           /\ ms_members = in.members
    /\ ms_df = <<>>
    /\ ms_rel = <<>>
    /\ ms_scores = <<>>
    /\ ms_stats = <<>>
    /\ ms_file = <<>>
    /\ fig_pc = "start"
    /\ fig_scores = <<>>

\* lines 273-308: the table is read, filtered and normalized as in
\* build_module_stats, then scored
FigBuildModuleScores ==
    /\ fig_pc = "start"
    /\ fig_scores' = FigScoreRows(Rel(DropSentinels(DropStratified(ms_table))),
                                  ms_members, ms_groups, 1)
    /\ fig_pc' = "scored"
    /\ UNCHANGED <<ms_vars, not_fig_vars>>

SpecFigure == FigInit /\ [][MsNext \/ FigBuildModuleScores]_vars

(***************************************************************************)
(* Sample column names.  A name is a sequence of pieces, each a run name   *)
(* or one of the decorations that the three analyses know of; the name is  *)
(* the concatenation of its pieces.                                        *)
(***************************************************************************)
NameTokens ==
    {"R1", "R2", "_Abundance", "_Coverage", "-RPKs", "_pathabundance", ".pathabundance",
     ".metaphlan"}

ColumnNames == SeqsUpTo(NameTokens, MaxTokens)

\* the names of the run_accession column of the group table
SheetRuns == {<<"R1">>, <<"R2">>}

\* run[: -len(suffix)] if run.endswith(suffix) else run
StripSuffix(name, suffix) ==
    IF name # <<>> /\ name[Len(name)] = suffix THEN SubSeq(name, 1, Len(name) - 1) ELSE name

\* the pathway script, lines 122-125: the two suffixes in turn
HumannRunName(name) == StripSuffix(StripSuffix(name, "_pathabundance"), ".pathabundance")

\* _clean_run_col: re.sub(r"_(Abundance|Coverage)(-RPKs)?$", "", column)
_clean_run_col(column) ==
    LET n == Len(column)
    IN  IF n >= 2 /\ column[n] = "-RPKs" /\ column[n - 1] \in {"_Abundance", "_Coverage"}
        THEN SubSeq(column, 1, n - 2)
        ELSE IF n >= 1 /\ column[n] \in {"_Abundance", "_Coverage"}
        THEN SubSeq(column, 1, n - 1)
        ELSE column

\* the species script, line 143: s.replace(".metaphlan", ""), every
\* occurrence
MetaphlanRunName(name) == SelectSeq(name, LAMBDA t : t # ".metaphlan")

ColInit ==
    /\ BhIdle
    /\ RunIdle
    /\ MsIdle
    /\ CdIdle
    /\ DvIdle
    /\ MainIdle
    /\ FigIdle
    /\ col_pc = "start"
    /\ col_name \in ColumnNames
    /\ col_humann = <<>>
    /\ col_module = <<>>
    /\ col_metaphlan = <<>>

\* the pathway script resolves the column
ColHumann ==
    /\ col_pc = "start"
    /\ col_humann' = HumannRunName(col_name)
    /\ col_pc' = "humann"
    /\ UNCHANGED <<col_name, col_module, col_metaphlan, not_col_vars>>

\* build_module_stats.py resolves the column
ColModule ==
    /\ col_pc = "humann"
    /\ col_module' = _clean_run_col(col_name)
    /\ col_pc' = "module"
    /\ UNCHANGED <<col_name, col_humann, col_metaphlan, not_col_vars>>

\* the species script resolves the column
ColMetaphlan ==
    /\ col_pc = "module"
    /\ col_metaphlan' = MetaphlanRunName(col_name)
    /\ col_pc' = "done"
    /\ UNCHANGED <<col_name, col_humann, col_module, not_col_vars>>

ColNext == ColHumann \/ ColModule \/ ColMetaphlan

SpecColumns == ColInit /\ [][ColNext]_vars

(***************************************************************************)
(* _mean, _sd and _cohens_d (the same in both feature-level scripts).  A    *)
(* float that comes out of math.sqrt is carried by its square: _sd by the  *)
(* variance, and the quotient diff / sp by sign(diff) * diff^2 / sp^2,     *)
(* which orders and separates the quotients as the quotients themselves.   *)
(***************************************************************************)
\* the values of the two lists
EffectValues == {0, 1, 3}

\* sum(xs[:k])
RECURSIVE FSumTo(_, _)
FSumTo(xs, k) == IF k = 0 THEN Flt(0) ELSE FAdd(FSumTo(xs, k - 1), xs[k])

\* _mean: sum(xs) / len(xs) if xs else nan
_mean(xs) == IF xs = <<>> THEN NaN ELSE FDiv(FSumTo([i \in 1..Len(xs) |-> Flt(xs[i])], Len(xs)), Flt(Len(xs)))

\* var of _sd: sum((x - m) ** 2 for x in xs) / (len(xs) - 1), 0.0 below 2 values
SdSquaredMutPopulation(xs) ==
    IF Len(xs) < 2 THEN Flt(0)
    ELSE LET m  == _mean(xs)
             sq == [i \in 1..Len(xs) |-> FMul(FSub(Flt(xs[i]), m), FSub(Flt(xs[i]), m))]
         IN  FDiv(FSumTo(sq, Len(xs)), Flt(Len(xs)))
SdSquared(xs) ==
    IF Len(xs) < 2 THEN Flt(0)
    ELSE LET m  == _mean(xs)
             sq == [i \in 1..Len(xs) |-> FMul(FSub(Flt(xs[i]), m), FSub(Flt(xs[i]), m))]
         IN  FDiv(FSumTo(sq, Len(xs)), Flt(Len(xs) - 1))

\* sp * sp: ((n1 - 1) * s1 * s1 + (n2 - 1) * s2 * s2) / (n1 + n2 - 2)
PooledSquared(n1, n2, s1sq, s2sq) ==
    FDiv(FAdd(FMul(Flt(n1 - 1), s1sq), FMul(Flt(n2 - 1), s2sq)), Flt(n1 + n2 - 2))

\* diff / sp for sp > 0, carried as sign(diff) * diff^2 / sp^2
QuotientBySqrt(diff, spsq) ==
    LET q == FDiv(FMul(diff, diff), spsq)
    IN  IF FLt(diff, Flt(0)) THEN FSub(Flt(0), q) ELSE q

CdInit ==
    /\ BhIdle
    /\ RunIdle
    /\ MsIdle
    /\ DvIdle
    /\ MainIdle
    /\ ColIdle
    /\ FigIdle
    /\ cd_pc = "call"
    /\ cd_x1 \in SeqsUpTo(EffectValues, MaxLen)
    /\ cd_x2 \in SeqsUpTo(EffectValues, MaxLen)
    /\ cd_s = <<>>
    /\ cd_out = NaN

\* lines 36-37: if not x1 or not x2: return nan
CdEmpty ==
    /\ cd_pc = "call"
    /\ cd_x1 = <<>> \/ cd_x2 = <<>>
    /\ cd_out' = NaN
    /\ cd_pc' = "ret"
    /\ UNCHANGED <<cd_x1, cd_x2, cd_s, not_cd_vars>>

\* lines 38-39: s1 = _sd(x1), s2 = _sd(x2)
CdSd ==
    /\ cd_pc = "call"
    /\ cd_x1 # <<>> /\ cd_x2 # <<>>
    /\ cd_s' = <<SdSquared(cd_x1), SdSquared(cd_x2)>>
    /\ cd_pc' = "sd"
    /\ UNCHANGED <<cd_x1, cd_x2, cd_out, not_cd_vars>>

\* lines 40-47
CdPool ==
    /\ cd_pc = "sd"
    /\ LET n1 == Len(cd_x1)
           n2 == Len(cd_x2)
       IN  cd_out' =
              IF n1 + n2 - 2 <= 0 THEN NaN
              ELSE LET spsq == PooledSquared(n1, n2, cd_s[1], cd_s[2])
                   IN  IF spsq = Flt(0) THEN Flt(0)
                       ELSE QuotientBySqrt(FSub(_mean(cd_x2), _mean(cd_x1)), spsq)
    /\ cd_pc' = "ret"
    /\ UNCHANGED <<cd_x1, cd_x2, cd_s, not_cd_vars>>

CdNext == CdEmpty \/ CdSd \/ CdPool

SpecD == CdInit /\ [][CdNext]_vars

(***************************************************************************)
(* build_module_stats.py: _build_module_direction_validation.  A           *)
(* statistics file has one row per module; of its columns the model keeps  *)
(* the module and the delta.                                               *)
(***************************************************************************)
\* module names of the two statistics files, in file order
StatModules == <<"M1", "M2", "M3">>

\* the deltas of a statistics file
Deltas == {Frac(-1, 2), Flt(0), Frac(1, 2), NaN}

\* the rows of a file that gives the modules of present their deltas
RECURSIVE StatRows(_, _, _)
StatRows(present, delta, k) ==
    IF k > Len(StatModules) THEN <<>>
    ELSE (IF StatModules[k] \in present
          THEN <<[module |-> StatModules[k], delta |-> PdCell(delta[StatModules[k]])]>>
          ELSE <<>>)
         \o StatRows(present, delta, k + 1)

\* the statistics files: any set of modules, any deltas
StatFiles ==
    UNION {{StatRows(present, delta, 1) : delta \in [present -> Deltas]} :
              present \in SUBSET {"M1", "M2", "M3"}}

\* pd.read_csv of a float cell: the empty string is NaN
PdRead(cell) == IF cell.kind = "empty" THEN NaN ELSE cell.value

\* np.sign: -1.0, 0.0 or 1.0, NaN for NaN
NpSign(x) ==
    IF IsNaN(x) THEN NaN
    ELSE IF x.n < 0 THEN Flt(-1) ELSE IF x.n > 0 THEN Flt(1) ELSE Flt(0)

\* the == of two float columns: False as soon as one side is NaN
FEqMutNanEqual(x, y) == x = y
FEq(x, y) == ~IsNaN(x) /\ ~IsNaN(y) /\ x = y

\* chb.merge(ext, on="module", how="inner"): the rows of chb, in order, with
\* each row of ext of the same module
RECURSIVE InnerJoin(_, _, _)
InnerJoin(chb, ext, k) ==
    IF k > Len(chb) THEN <<>>
    ELSE SelectSeq([j \in 1..Len(ext) |->
                      [module |-> chb[k].module,
                       delta_S_minus_M |-> chb[k].delta,
                       delta_LC_minus_HC |-> ext[j].delta,
                       same |-> ext[j].module = chb[k].module]],
                   LAMBDA row : row.same)
         \o InnerJoin(chb, ext, k + 1)

DvInit ==
    /\ BhIdle
    /\ RunIdle
    /\ MsIdle
    /\ CdIdle
    /\ FigIdle
    /\ ColIdle
    /\ MainIdle
    /\ dv_pc = "start"
    /\ dv_chb = <<>>
    /\ dv_ext = <<>>
    /\ dv_merged = <<>>
    /\ dv_out = <<>>

\* lines 132-133: the two files are read; has_p tells whether the external
\* file has a column p
DvRead ==
    /\ dv_pc = "start"
    /\ \E chb \in StatFiles, ext \in StatFiles, has_p \in BOOLEAN :
           /\ dv_chb' = [k \in 1..Len(chb) |->
                            [module |-> chb[k].module, delta |-> PdRead(chb[k].delta)]]
           /\ dv_ext' = [has_p |-> has_p,
                         rows |-> [k \in 1..Len(ext) |->
                                      [module |-> ext[k].module, delta |-> PdRead(ext[k].delta)]]]
    /\ dv_pc' = "read"
    /\ UNCHANGED <<dv_merged, dv_out, not_dv_vars>>

\* lines 135-139: the inner join; KeyError when p was not suffixed
DvMerge ==
    /\ dv_pc = "read"
    /\ IF dv_ext.has_p
       THEN /\ dv_merged' = InnerJoin(dv_chb, dv_ext.rows, 1)
            /\ dv_pc' = "merged"
       ELSE /\ dv_pc' = "error"
            /\ UNCHANGED dv_merged
    /\ UNCHANGED <<dv_chb, dv_ext, dv_out, not_dv_vars>>

\* lines 141-158: the rows of keep, as written
DirectionRows(merged) ==
    [k \in 1..Len(merged) |->
        [module |-> merged[k].module,
         delta_S_minus_M |-> PdCell(merged[k].delta_S_minus_M),
         delta_LC_minus_HC |-> PdCell(merged[k].delta_LC_minus_HC),
         direction_match |-> FEq(NpSign(merged[k].delta_S_minus_M),
                                 NpSign(merged[k].delta_LC_minus_HC))]]

\* lines 141-160: direction_match, and the file is written
DvWrite ==
    /\ dv_pc = "merged"
    /\ dv_out' = DirectionRows(dv_merged)
    /\ dv_pc' = "written"
    /\ UNCHANGED <<dv_chb, dv_ext, dv_merged, not_dv_vars>>

DvNext == DvRead \/ DvMerge \/ DvWrite

SpecDirection == DvInit /\ [][DvNext]_vars

(***************************************************************************)
(* build_module_stats.py: main.  The files at the output paths are carried *)
(* as [exists, rows]; the merged table, the group table, the two           *)
(* membership tables and the external statistics file are only read.       *)
(***************************************************************************)
\* the names of the paths: --out-cons, --out-exp, --out-direction
OutPaths == {"cons", "exp", "dir"}

NoFile == [exists |-> FALSE, rows |-> <<>>]

\* a statistics table left at a path by an earlier run
OldStatsFile ==
    [exists |-> TRUE,
     rows |-> <<[module |-> "M3", median_M |-> PdCell(Flt(0)), median_S |-> PdCell(Flt(1)),
                 delta_S_minus_M |-> PdCell(Flt(1)), p |-> PdCell(Flt(1)),
                 q |-> PdCell(Flt(1))]>>]

\* the membership tables given as --module-set-cons and --module-set-exp
MainMembers ==
    {<<[module |-> "M1", feature |-> "A"]>>,
     <<[module |-> "M1", feature |-> "A"], [module |-> "M2", feature |-> "B"]>>,
     <<[module |-> "M1", feature |-> "Z"]>>}

\* the external statistics files: those without the module M2
MainExtFiles == {f \in StatFiles : \A k \in 1..Len(f) : f[k].module # "M2"}

\* the group tables: both groups present, or S only
MainGroups ==
    {[c \in RunCols |-> IF c = "R1" THEN "M" ELSE "S"], [c \in RunCols |-> "S"]}

\* what is at the output paths before the run: nothing, or older files
MainOldFiles == {[path \in OutPaths |-> NoFile], [path \in OutPaths |-> OldStatsFile]}

\* what main is given: --out-exp may name the path of --out-cons
MainInputs ==
    [table : ScoreTables,
     groups : MainGroups,
     members_cons : MainMembers,
     members_exp : MainMembers,
     ext : [has_p : BOOLEAN, rows : MainExtFiles],
     out_cons : {"cons"},
     out_exp : {"exp", "cons"},
     out_direction : {"dir"},
     fs0 : MainOldFiles]

\* df.to_csv(path, ...): the file at the path is replaced
WriteFileMutKeep(fs, path, rows) == fs
WriteFile(fs, path, rows) == [fs EXCEPT ![path] = [exists |-> TRUE, rows |-> rows]]

\* _build_module_scores of lines 211 and 215
MainScores(in, members) ==
    ScoreRows(Rel(DropSentinels(DropStratified(in.table))), members, in.groups, 1)

\* the rank test's p-values that _module_stats can see for these scores
MainMwu(scores) ==
    {mw \in [{"M1", "M2"} -> MwuPValues] :
        \A mo \in {"M1", "M2"} :
            (ScoresOf(scores, mo, "M", 1) = <<>> \/ ScoresOf(scores, mo, "S", 1) = <<>>)
                => mw[mo] = Flt(1)}

\* pd.read_csv(chb_stats): the module and the delta of each row
ReadStats(rows) ==
    [k \in 1..Len(rows) |->
        [module |-> rows[k].module, delta |-> PdRead(rows[k].delta_S_minus_M)]]

\* pd.read_csv(hbvlc_stats)
ReadExt(rows) ==
    [k \in 1..Len(rows) |-> [module |-> rows[k].module, delta |-> PdRead(rows[k].delta)]]

MainInit ==
    /\ BhIdle
    /\ RunIdle
    /\ MsIdle
    /\ CdIdle
    /\ DvIdle
    /\ FigIdle
    /\ ColIdle
    /\ mn_pc = "start"
    /\ mn_in \in MainInputs
    /\ mn_fs = mn_in.fs0
    /\ mn_stats = [cons |-> <<>>, exp |-> <<>>]

\* lines 211-213: the conservative scores, statistics and file; KeyError in
\* _module_stats when there is no score row
MainCons ==
    /\ mn_pc = "start"
    /\ \E scores \in {MainScores(mn_in, mn_in.members_cons)} :
           IF scores = <<>>
           THEN /\ mn_pc' = "error_cons"
                /\ UNCHANGED <<mn_fs, mn_stats>>
           ELSE \E mw \in MainMwu(scores) :
                \E stats \in {ModuleStats(scores, mw)} :
                    /\ mn_stats' = [mn_stats EXCEPT !.cons = stats]
                    /\ mn_fs' = WriteFile(mn_fs, mn_in.out_cons, TsvRows(stats))
                    /\ mn_pc' = "cons"
    /\ UNCHANGED <<mn_in, not_mn_vars>>

\* lines 215-217: the same with the expanded membership table
MainExp ==
    /\ mn_pc = "cons"
    /\ \E scores \in {MainScores(mn_in, mn_in.members_exp)} :
           IF scores = <<>>
           THEN /\ mn_pc' = "error_exp"
                /\ UNCHANGED <<mn_fs, mn_stats>>
           ELSE \E mw \in MainMwu(scores) :
                \E stats \in {ModuleStats(scores, mw)} :
                    /\ mn_stats' = [mn_stats EXCEPT !.exp = stats]
                    /\ mn_fs' = WriteFile(mn_fs, mn_in.out_exp, TsvRows(stats))
                    /\ mn_pc' = "exp"
    /\ UNCHANGED <<mn_in, not_mn_vars>>

\* line 219: _build_module_direction_validation(args.out_cons, ...); it
\* raises when the file is missing or the external file has no column p
MainDirection ==
    /\ mn_pc = "exp"
    /\ IF mn_fs[mn_in.out_cons].exists /\ mn_in.ext.has_p
       THEN /\ mn_fs' = WriteFile(mn_fs, mn_in.out_direction,
                                  DirectionRows(InnerJoin(ReadStats(mn_fs[mn_in.out_cons].rows),
                                                          ReadExt(mn_in.ext.rows), 1)))
            /\ mn_pc' = "direction"
       ELSE /\ mn_pc' = "error_direction"
            /\ UNCHANGED mn_fs
    /\ UNCHANGED <<mn_in, mn_stats, not_mn_vars>>

\* lines 221-224: the three [ok] lines, return 0
MainReport ==
    /\ mn_pc = "direction"
    /\ mn_pc' = "ok"
    /\ UNCHANGED <<mn_in, mn_fs, mn_stats, not_mn_vars>>

MainNext == MainCons \/ MainExp \/ MainDirection \/ MainReport

SpecMain == MainInit /\ [][MainNext]_vars

(***************************************************************************)
(* Reference notions for the claims about _bh_fdr, stated without the      *)
(* code's sort: ranks by counting.                                         *)
(***************************************************************************)
NonNaNPos(ps) == {i \in 1..Len(ps) : ~IsNaN(ps[i])}

\* ascending rank of position i among the non-NaN p-values (ties by position)
RankOf(ps, i) ==
    1 + Cardinality({j \in NonNaNPos(ps) :
                        \/ FLt(ps[j], ps[i])
                        \/ (ps[j] = ps[i] /\ j < i)})

PosAtRank(ps, k) == CHOOSE i \in NonNaNPos(ps) : RankOf(ps, i) = k

FMinOfSet(S) == CHOOSE x \in S : \A y \in S : FLe(x, y)

\* min(1.0, min over ranks j in k..m of p_(j) * m / j)
BhReference(ps, k) ==
    LET m == Cardinality(NonNaNPos(ps))
    IN  FMinOfSet({Flt(1)} \cup
                  {FDiv(FMul(ps[PosAtRank(ps, j)], Flt(m)), Flt(j)) : j \in k..m})

RemoveAt(s, i) == [j \in 1..(Len(s) - 1) |-> IF j < i THEN s[j] ELSE s[j + 1]]

InsertAt(s, i, x) ==
    [j \in 1..(Len(s) + 1) |-> IF j < i THEN s[j] ELSE IF j = i THEN x ELSE s[j - 1]]

\* C1: the returned list has the length of the input, q[i] is NaN exactly
\* when p[i] is NaN, and the value at position i is the one computed from the
\* p-value at position i: it lies between p[i] and p[i] * m / rank(i).
C1_IndexCorrespondence ==
    bh_pc = "ret" =>
        /\ Len(bh_q) = Len(bh_pvals)
        /\ \A i \in 1..Len(bh_pvals) :
              /\ IsNaN(bh_q[i]) <=> IsNaN(bh_pvals[i])
              /\ ~IsNaN(bh_pvals[i]) =>
                    /\ FLe(bh_pvals[i], bh_q[i])
                    /\ FLe(bh_q[i],
                           FDiv(FMul(bh_pvals[i], Flt(Cardinality(NonNaNPos(bh_pvals)))),
                                Flt(RankOf(bh_pvals, i))))

\* C1 witness: a list with a NaN in front and two unsorted p-values behind it
\* has been corrected, the two receiving different q-values.
W_C1 ==
    /\ bh_pc = "ret"
    /\ Len(bh_pvals) = 3
    /\ IsNaN(bh_pvals[1])
    /\ FLt(bh_pvals[3], bh_pvals[2])
    /\ FLt(bh_q[3], bh_q[2])

\* C2: the q-value of the p-value of rank k is min(1, min over j in k..m of
\* p_(j) * m / j), m counting the non-NaN entries only; removing a NaN entry,
\* or adding one anywhere, leaves every other q-value unchanged.
C2_StepUpFormula ==
    bh_pc = "ret" =>
        /\ \A i \in NonNaNPos(bh_pvals) :
              bh_q[i] = BhReference(bh_pvals, RankOf(bh_pvals, i))
        /\ \A i \in 1..Len(bh_pvals) :
              IsNaN(bh_pvals[i]) => _bh_fdr(RemoveAt(bh_pvals, i)) = RemoveAt(bh_q, i)
        /\ \A i \in 1..(Len(bh_pvals) + 1) :
              _bh_fdr(InsertAt(bh_pvals, i, NaN)) = InsertAt(bh_q, i, NaN)

\* C2 witness: a list holding a NaN and two p-values where the envelope acts
\* (the smaller p-value takes its q-value from the larger one).
W_C2 ==
    /\ bh_pc = "ret"
    /\ \E i \in 1..Len(bh_pvals) : IsNaN(bh_pvals[i])
    /\ \E i, j \in NonNaNPos(bh_pvals) :
          /\ FLt(bh_pvals[i], bh_pvals[j])
          /\ bh_q[i] = bh_q[j]
          /\ FLt(bh_q[j], Flt(1))

\* C3: read in ascending order of p-value, the q-values never decrease.
C3_Monotone ==
    bh_pc = "ret" =>
        \A i, j \in NonNaNPos(bh_pvals) :
            RankOf(bh_pvals, i) < RankOf(bh_pvals, j) => FLe(bh_q[i], bh_q[j])

\* C3 witness: a corrected list in which a larger p-value has the smaller
\* uncorrected value p * m / k, so that the running minimum decides.
W_C3 ==
    /\ bh_pc = "ret"
    /\ \E i, j \in NonNaNPos(bh_pvals) :
          /\ RankOf(bh_pvals, i) < RankOf(bh_pvals, j)
          /\ FLt(FDiv(FMul(bh_pvals[j], Flt(Cardinality(NonNaNPos(bh_pvals)))),
                      Flt(RankOf(bh_pvals, j))),
                 FDiv(FMul(bh_pvals[i], Flt(Cardinality(NonNaNPos(bh_pvals)))),
                      Flt(RankOf(bh_pvals, i))))

C28_OrderPreserved ==
    bh_pc = "ret" =>
        \A i, j \in NonNaNPos(bh_pvals) :
            /\ FLe(bh_pvals[i], bh_pvals[j]) => FLe(bh_q[i], bh_q[j])
            /\ bh_pvals[i] = bh_pvals[j] => bh_q[i] = bh_q[j]

\* C28 witness: a corrected list with the same p-value at its two ends, a
\* larger one between them, and q-values below 1 for the two.
W_C28 ==
    /\ bh_pc = "ret"
    /\ Len(bh_pvals) = 3
    /\ bh_pvals[1] = bh_pvals[3]
    /\ FLt(bh_pvals[1], bh_pvals[2])
    /\ FLt(Flt(0), bh_pvals[1])
    /\ bh_q[1] = bh_q[3]
    /\ FLt(bh_q[1], Flt(1))

\* the permutations of the positions 1..n
Perms(n) == {f \in [1..n -> 1..n] : \A a, b \in 1..n : f[a] = f[b] => a = b}

\* the list s read in the order f
Permuted(s, f) == [k \in 1..Len(s) |-> s[f[k]]]

\* C29: _bh_fdr of a reordered list is the reordered output of _bh_fdr.
C29_Equivariant ==
    bh_pc = "ret" =>
        \A f \in Perms(Len(bh_pvals)) :
            _bh_fdr(Permuted(bh_pvals, f)) = Permuted(bh_q, f)

\* C29 witness: a corrected list of three different entries, a NaN among
\* them, given in descending order of the p-values.
W_C29 ==
    /\ bh_pc = "ret"
    /\ Len(bh_pvals) = 3
    /\ IsNaN(bh_pvals[2])
    /\ FLt(bh_pvals[3], bh_pvals[1])
    /\ FLt(bh_q[3], bh_q[1])

(***************************************************************************)
(* Reference notions for the claims about the permutation test.            *)
(***************************************************************************)
RECURSIVE SumSet(_, _)
SumSet(xs, S) ==
    IF S = {} THEN 0
    ELSE LET i == CHOOSE j \in S : TRUE IN xs[i] + SumSet(xs, S \ {i})

Range(s) == {s[i] : i \in 1..Len(s)}

\* mean(values at indices in T) - mean(values at indices in C)
MeanDiff(clr, T, C) ==
    Frac(SumSet(clr, T) * Cardinality(C) - SumSet(clr, C) * Cardinality(T),
         Cardinality(T) * Cardinality(C))

\* the CLR vector of the row behind a feature record of run r
ClrOfFeature(r, f) == Clr(args[r].script, RowVals(table[f.line], keep_samples[r]))

\* the number of precomputed subsets T for which
\* |mean(CLR at T) - mean(CLR at the kept indices not in T)| >= |mean(CLR_S) - mean(CLR_M)|
RefExtreme(r, f) ==
    LET clr == ClrOfFeature(r, f)
        obs == MeanDiff(clr, Range(idx_by_group[r].S), Range(idx_by_group[r].M))
    IN  Cardinality({k \in 1..Len(perm_subsets[r]) :
            FGe(FAbs(MeanDiff(clr, Range(perm_subsets[r][k]),
                              (1..Len(clr)) \ Range(perm_subsets[r][k]))),
                FAbs(obs))})

Tested(r) == pc[r] \in {"features", "done"}

\* C5: every permutation p-value lies in [1 / (n_perm + 1), 1], for every
\* n_perm >= 0, n_perm = 0 included.
C5_PValueBounds ==
    \A r \in runs : \A i \in 1..Len(features[r]) :
        /\ FLe(Frac(1, args[r].n_perm + 1), features[r][i].p_perm)
        /\ FLe(features[r][i].p_perm, Flt(1))

\* C5 witness: a run with n_perm = 0 has written a feature, with p-value 1.
W_C5 ==
    \E r \in runs :
        /\ pc[r] = "done"
        /\ args[r].n_perm = 0
        /\ Len(features[r]) > 0
        /\ features[r][1].p_perm = Flt(1)

\* C6: the p-value of every feature is (count_extreme + 1) / (n_perm + 1),
\* count_extreme counting the subsets T whose subset mean minus complement
\* mean is at least as extreme as mean(CLR_S) - mean(CLR_M).
C6_ClosedFormIsMeanDifference ==
    \A r \in runs : \A i \in 1..Len(features[r]) :
        features[r][i].p_perm = Frac(RefExtreme(r, features[r][i]) + 1, args[r].n_perm + 1)

\* C7: the permutation collection holds n_perm subsets, each of |S| pairwise
\* distinct indices, drawn from an index set of size |M| + |S|.
C7_PermutationCollection ==
    \A r \in runs :
        Tested(r) =>
            /\ Len(perm_subsets[r]) = args[r].n_perm
            /\ \A k \in 1..Len(perm_subsets[r]) :
                  /\ Len(perm_subsets[r][k]) = Len(idx_by_group[r].S)
                  /\ Cardinality(Range(perm_subsets[r][k])) = Len(perm_subsets[r][k])
                  /\ Range(perm_subsets[r][k]) \subseteq Range(AllIdx(keep_samples[r]))
            /\ Len(AllIdx(keep_samples[r]))
                  = Len(idx_by_group[r].M) + Len(idx_by_group[r].S)

\* C8: the subset list is complete before the first feature is processed;
\* from then on no step changes it or the generator; every feature is tested
\* against that list, so the same row gets the same p-value wherever it
\* stands in the table.
C8_SubsetsFrozen ==
    [][\A r \in runs :
          /\ Tested(r) => (perm_subsets'[r] = perm_subsets[r] /\ rng'[r] = rng[r])
          /\ Tested(r)' => Len(perm_subsets'[r]) = args[r].n_perm
          /\ features'[r] # features[r] =>
                /\ pc[r] = "features"
                /\ \A i \in 1..Len(features'[r]) :
                      features'[r][i].p_perm
                          = PPerm(CountExtreme(Clr(args[r].script,
                                                   RowVals(table[i], keep_samples[r])),
                                               perm_subsets'[r], Len(perm_subsets'[r]),
                                               Obs(Clr(args[r].script,
                                                       RowVals(table[i], keep_samples[r])),
                                                   idx_by_group[r]),
                                               Len(idx_by_group[r].S),
                                               Len(idx_by_group[r].M)),
                                  args[r].n_perm)
                /\ \A i, j \in 1..Len(features'[r]) :
                      table[i] = table[j] => features'[r][i].p_perm = features'[r][j].p_perm
      ]_vars

\* C8 witness: a finished run with n_perm >= 2 whose table holds the same row
\* twice.
W_C8 ==
    \E r \in runs :
        /\ pc[r] = "done"
        /\ args[r].n_perm >= 2
        /\ Len(features[r]) >= 2
        /\ table[1] = table[2]
        /\ FLt(features[r][1].p_perm, Flt(1))

\* C9: two runs with the same script, seed, sample sheet, n_perm and matrix
\* end with identical subset lists, p-values and q-values.
C9_Determinism ==
    (/\ pc[1] = "done"
     /\ pc[2] = "done"
     /\ args[1].script = args[2].script
     /\ args[1].seed = args[2].seed
     /\ args[1].n_perm = args[2].n_perm
     /\ args[1].groups = args[2].groups) =>
        /\ perm_subsets[1] = perm_subsets[2]
        /\ features[1] = features[2]
        /\ qvals[1] = qvals[2]

\* C9 witness: two finished runs with the same seed, at least one subset and
\* features written; the operating systems' entropy differed.
W_C9 ==
    /\ pc[1] = "done"
    /\ pc[2] = "done"
    /\ args[1].seed = args[2].seed
    /\ args[1].entropy # args[2].entropy
    /\ Len(perm_subsets[1]) >= 2
    /\ Len(features[1]) = 2
    /\ Len(qvals[2]) = 2

(***************************************************************************)
(* Reference notions for the claims about the normalization.               *)
(***************************************************************************)
\* the rows of the table that are unstratified and no sentinel
RetainedRows(tbl) ==
    {k \in 1..Len(tbl) : ~ContainsBar(tbl[k].feature)
                         /\ tbl[k].feature \notin {"UNMAPPED", "UNINTEGRATED"}}

RECURSIVE IntSumOver(_, _, _)
IntSumOver(tbl, K, c) ==
    IF K = {} THEN 0
    ELSE LET k == CHOOSE j \in K : TRUE IN tbl[k].vals[c] + IntSumOver(tbl, K \ {k}, c)

RECURSIVE RelSum(_, _, _)
RelSum(rel, c, k) == IF k = 0 THEN Flt(0) ELSE FAdd(rel[k].vals[c], RelSum(rel, c, k - 1))

\* C10: after normalization the rows of rel are the retained rows of the
\* table, and in every column whose raw sum over the retained rows is
\* positive the relative abundances lie in [0, 1] and sum to 1.
C10_ColumnsSumToOne ==
    ms_pc = "normalized" =>
        /\ Len(ms_rel) = Cardinality(RetainedRows(ms_table))
        /\ \A c \in RunCols :
              IntSumOver(ms_table, RetainedRows(ms_table), c) > 0 =>
                  /\ RelSum(ms_rel, c, Len(ms_rel)) = Flt(1)
                  /\ \A k \in 1..Len(ms_rel) :
                        /\ FLe(Flt(0), ms_rel[k].vals[c])
                        /\ FLe(ms_rel[k].vals[c], Flt(1))

\* C10 witness: a table with a sentinel row and two retained rows has been
\* normalized, a column being shared between the two retained rows.
W_C10 ==
    /\ ms_pc = "normalized"
    /\ Len(ms_table) > Len(ms_rel)
    /\ Len(ms_rel) = 2
    /\ \E c \in RunCols : ms_rel[1].vals[c] = Frac(1, 2) /\ ms_rel[2].vals[c] = Frac(1, 2)

(***************************************************************************)
(* Reference notions for the claims about the kept samples.                *)
(***************************************************************************)
\* the matrix columns that the sample sheet labels g
ColumnsOf(r, g) == {c \in 1..MaxSamples : args[r].groups[c] = g}

\* the positions in the CLR vector of the samples of both groups
BothGroups(r) == Range(idx_by_group[r].M) \cup Range(idx_by_group[r].S)

C12_OnlyLabelledMOrS ==
    \A r \in runs :
        /\ Tested(r) =>
              {keep_samples[r][k] : k \in 1..Len(keep_samples[r])}
                  = ColumnsOf(r, "M") \cup ColumnsOf(r, "S")
        /\ pc[r] = "exit" => (ColumnsOf(r, "M") = {} \/ ColumnsOf(r, "S") = {})

\* C18: prev_M counts the samples labelled M with a positive raw value and
\* prev_S those labelled S, so neither exceeds the size of its group.
C18_Prevalence ==
    \A r \in runs : \A i \in 1..Len(features[r]) :
        LET f   == features[r][i]
            pos == {c \in 1..MaxSamples : ParseFloat(table[f.line].cells[c]) > 0}
        IN  /\ f.prev.M = Cardinality(pos \cap ColumnsOf(r, "M"))
            /\ f.prev.S = Cardinality(pos \cap ColumnsOf(r, "S"))
            /\ f.prev.M <= Len(idx_by_group[r].M)
            /\ f.prev.S <= Len(idx_by_group[r].S)

(***************************************************************************)
(* Reference notions for the claim about _cohens_d: means and variances    *)
(* from the sums of the values and of their squares.                       *)
(***************************************************************************)
RECURSIVE IntSum(_, _)
IntSum(xs, k) == IF k = 0 THEN 0 ELSE xs[k] + IntSum(xs, k - 1)

RefMean(xs) == Frac(IntSum(xs, Len(xs)), Len(xs))

\* the variance with Bessel's correction, 0 for fewer than 2 values
RefVariance(xs) ==
    IF Len(xs) < 2 THEN Flt(0)
    ELSE LET n  == Len(xs)
             s1 == IntSum(xs, n)
             s2 == IntSum([i \in 1..n |-> xs[i] * xs[i]], n)
         IN  Frac(n * s2 - s1 * s1, n * (n - 1))

RefPooled(x1, x2) ==
    LET v1 == RefVariance(x1)
        v2 == RefVariance(x2)
    IN  Frac((Len(x1) - 1) * v1.n * v2.d + (Len(x2) - 1) * v2.n * v1.d,
             v1.d * v2.d * (Len(x1) + Len(x2) - 2))

\* C16: _cohens_d returns NaN when a list is empty or n_M + n_S <= 2, 0.0
\* when the pooled standard deviation is 0 (whatever the means), and
\* otherwise (mean_S - mean_M) / pooled_sd, the standard deviation of fewer
\* than 2 values being 0.
C16_CohensD ==
    cd_pc = "ret" =>
        IF cd_x1 = <<>> \/ cd_x2 = <<>> \/ Len(cd_x1) + Len(cd_x2) <= 2
        THEN IsNaN(cd_out)
        ELSE IF RefPooled(cd_x1, cd_x2) = Flt(0)
        THEN cd_out = Flt(0)
        ELSE LET diff == FSub(RefMean(cd_x2), RefMean(cd_x1))
                 q    == FDiv(FMul(diff, diff), RefPooled(cd_x1, cd_x2))
             IN  /\ ~IsNaN(cd_out)
                 /\ FAbs(cd_out) = q
                 /\ FLt(cd_out, Flt(0)) <=> FLt(diff, Flt(0))

\* C16 witness: two lists with different means and no spread (one of them a
\* single value, whose standard deviation is taken as 0.0) give 0.0.
W_C16 == cd_pc = "ret" /\ cd_x1 = <<1, 1>> /\ cd_x2 = <<3>> /\ cd_out = Flt(0)

\* C14: no row with the key UNMAPPED or UNINTEGRATED and no row whose key
\* holds a '|' is in the table a run writes, with or without
\* --drop-stratified.
C14_NoSentinelOrStratifiedRow ==
    \A r \in runs :
        pc[r] = "done" =>
            \A i \in 1..Len(written[r]) :
                /\ written[r][i].feature \notin {"UNMAPPED", "UNINTEGRATED"}
                /\ ~ContainsBar(written[r][i].feature)

(***************************************************************************)
(* Reference notions for the claims about the module-level analysis.       *)
(***************************************************************************)
\* the run columns that the group table labels g
RunsOf(g) == {c \in RunCols : ms_groups[c] = g}

\* the member features of a module, as a set
MemberSet(mo) == {ms_members[k].feature : k \in {j \in 1..Len(ms_members) : ms_members[j].module = mo}}

\* the rows of rel that hold a member of the module
MemberRowsOf(mo) == {i \in 1..Len(ms_rel) : ms_rel[i].feature \in MemberSet(mo)}

RECURSIVE RelSumOver(_, _)
RelSumOver(I, c) ==
    IF I = {} THEN Flt(0)
    ELSE LET i == CHOOSE j \in I : TRUE IN FAdd(ms_rel[i].vals[c], RelSumOver(I \ {i}, c))

\* C13: a run ends with a fatal error and writes no statistics table when no
\* sample column matches the group mapping or when group M or group S has no
\* sample.
C13_FatalWithoutBothGroups ==
    (ms_pc \notin {"idle", "start"} /\ (RunsOf("M") = {} \/ RunsOf("S") = {})) =>
        /\ ms_pc \notin {"stats", "written"}
        /\ ms_file = <<>>

\* C15: for every module with a member in the matrix and every kept sample
\* there is one score row, and its score is the sum of the sample's relative
\* abundances over the set of members in the matrix, each counted once; a
\* module without a member in the matrix has no row.
C15_ModuleScore ==
    ms_pc = "scored" =>
        \A mo \in {"M1", "M2"} :
            LET rows == {k \in 1..Len(ms_scores) : ms_scores[k].module = mo}
            IN  IF MemberRowsOf(mo) = {}
                THEN rows = {}
                ELSE \A c \in RunsOf("M") \cup RunsOf("S") :
                        /\ Cardinality({k \in rows : ms_scores[k].run_accession = c}) = 1
                        /\ \A k \in rows :
                              (ms_scores[k].run_accession = c
                               /\ ~IsNaN(RelSumOver(MemberRowsOf(mo), c)))
                                  => ms_scores[k].score = RelSumOver(MemberRowsOf(mo), c)

\* C17: when a group has no sample, the p-value and the q-value of every
\* feature are NaN, nothing is raised, and every row of the table is still
\* produced.
C17_NaNWithoutGroup ==
    \A r \in runs :
        (pc[r] # "start" /\ (ColumnsOf(r, "M") = {} \/ ColumnsOf(r, "S") = {})) =>
            /\ pc[r] # "exit"
            /\ \A i \in 1..Len(features[r]) : IsNaN(features[r][i].p_perm)
            /\ pc[r] = "done" =>
                  /\ Len(written[r]) = Len(table)
                  /\ \A i \in 1..Len(qvals[r]) : IsNaN(qvals[r][i])

\* C20: in every statistics table written, the q cell of a row is the empty
\* string when the q-value is NaN, never the text "nan", and a number
\* otherwise.
C20_MissingQIsEmpty ==
    /\ \A r \in runs :
          pc[r] = "done" =>
              \A i \in 1..Len(written[r]) :
                  /\ written[r][i].q_fdr.kind # "nan"
                  /\ IsNaN(qvals[r][i]) <=> written[r][i].q_fdr.kind = "empty"
                  /\ ~IsNaN(qvals[r][i]) <=> written[r][i].q_fdr.kind = "number"
    /\ ms_pc = "written" =>
          \A k \in 1..Len(ms_file) :
              /\ ms_file[k].q.kind # "nan"
              /\ IsNaN(ms_stats[k].q) <=> ms_file[k].q.kind = "empty"
              /\ ~IsNaN(ms_stats[k].q) <=> ms_file[k].q.kind = "number"

\* C20 witness: a module table has been written whose module has no p-value,
\* its q cell being empty.
W_C20 ==
    /\ ms_pc = "written"
    /\ Len(ms_file) > 0
    /\ IsNaN(ms_stats[1].q)
    /\ ms_file[1].q.kind = "empty"

(***************************************************************************)
(* Reference notions for the claim about the direction table.              *)
(***************************************************************************)
ModulesOfRows(rows) == {rows[k].module : k \in 1..Len(rows)}

DeltaOf(rows, mo) == rows[CHOOSE k \in 1..Len(rows) : rows[k].module = mo].delta

\* both deltas are numbers, and both negative, both zero or both positive
SameSign(a, b) ==
    /\ ~IsNaN(a)
    /\ ~IsNaN(b)
    /\ \/ (a.n < 0 /\ b.n < 0)
       \/ (a.n = 0 /\ b.n = 0)
       \/ (a.n > 0 /\ b.n > 0)

TrueIdx(r, g) == {i \in 1..Len(keep_samples[r]) : args[r].groups[keep_samples[r][i]] = g}

\* the drawn subsets of run r that are the index set T
DrawnEqual(r, T) == {k \in 1..Len(perm_subsets[r]) : Range(perm_subsets[r][k]) = T}

\* C21: in the end-to-end scenario the subsets counted as extreme for feature
\* A are exactly the drawn subsets equal to the S index set or to the M index
\* set, so its p-value is (their number + 1) / (n_perm + 1), the least value
\* that the drawn subsets allow.
C21_ScenarioMinimalP ==
    \A r \in runs : \A i \in 1..Len(features[r]) :
        (features[r][i].feat = "A" /\ args[r].groups = E2EGroups) =>
            features[r][i].p_perm
                = Frac(Cardinality(DrawnEqual(r, TrueIdx(r, "S")))
                          + Cardinality(DrawnEqual(r, TrueIdx(r, "M"))) + 1,
                       args[r].n_perm + 1)

\* C21 witness: the scenario run is done with ScenarioPerm subsets, some equal
\* to the S index set, some to the M index set and some to neither, and
\* feature A has been tested.
W_C21 ==
    \E r \in runs :
        /\ pc[r] = "done"
        /\ args[r].groups = E2EGroups
        /\ Len(perm_subsets[r]) = ScenarioPerm
        /\ DrawnEqual(r, TrueIdx(r, "S")) # {}
        /\ DrawnEqual(r, TrueIdx(r, "M")) # {}
        /\ Cardinality(DrawnEqual(r, TrueIdx(r, "S")) \cup DrawnEqual(r, TrueIdx(r, "M")))
              < ScenarioPerm
        /\ \E i \in 1..Len(features[r]) :
              features[r][i].feat = "A" /\ FLt(features[r][i].p_perm, Flt(1))

(***************************************************************************)
(* Reference notions for the claim about samples without abundance.        *)
(***************************************************************************)
\* the sample columns whose raw sum over the retained rows is zero
ZeroSumRuns == {c \in RunCols : ColSum(ms_df, c, Len(ms_df)) = 0}

\* C22: a sample whose raw column sum over the retained rows is zero has no
\* module score row, so it enters no median, delta or p-value.
C22_ZeroSumExcluded ==
    ms_pc \in {"scored", "stats", "written"} =>
        \A k \in 1..Len(ms_scores) : ms_scores[k].run_accession \notin ZeroSumRuns

(***************************************************************************)
(* Reference notions for the claim about the two score builders.           *)
(***************************************************************************)
\* the figure generator has computed this score for the module and the run
FigHasScore(mo, run, score) ==
    \E k \in 1..Len(fig_scores) :
        /\ fig_scores[k].module = mo
        /\ fig_scores[k].run_accession = run
        /\ fig_scores[k].score = score

\* C23: on the same three tables, the score of build_module_stats for a
\* module and a run is the score of the figure generator for them.
C23_SameScoreAsFigures ==
    (ms_pc \in {"scored", "stats", "written"} /\ fig_pc = "scored") =>
        \A k \in 1..Len(ms_scores) :
            FigHasScore(ms_scores[k].module, ms_scores[k].run_accession, ms_scores[k].score)

(***************************************************************************)
(* Reference notions for the claim about the values that enter the CLR.    *)
(***************************************************************************)
\* the data lines that are pathway or species totals: no '|' in the key, no
\* sentinel key
RetainedLines == {k \in 1..Len(table) : ~ContainsBar(table[k].feat)
                                         /\ table[k].feat \notin {"UNMAPPED", "UNINTEGRATED"}}

RECURSIVE CellSumOver(_, _)
CellSumOver(K, col) ==
    IF K = {} THEN 0
    ELSE LET k == CHOOSE x \in K : TRUE
         IN  ParseFloat(table[k].cells[col]) + CellSumOver(K \ {k}, col)

\* C24: the value of a sample that enters the log of the CLR transform is the
\* raw value divided by the sample's column sum over the retained rows, a
\* number of [0, 1].
C24_RelativeAbundanceEntersClr ==
    \A r \in runs : \A i \in 1..Len(features[r]) : \A j \in 1..Len(keep_samples[r]) :
        LET col == keep_samples[r][j]
            total == CellSumOver(RetainedLines, col)
        IN  /\ FLe(Flt(0), features[r][i].entered[j])
            /\ FLe(features[r][i].entered[j], Flt(1))
            /\ total > 0 =>
                  features[r][i].entered[j]
                      = Frac(ParseFloat(table[features[r][i].line].cells[col]), total)

\* C25: when the header line of the abundance table begins with '#', the
\* pathway-level analysis takes that line as the header and every following
\* line as a data row; no data row is taken as the header.
C25_HashHeaderIsHeader ==
    \A r \in runs :
        (args[r].script = "humann" /\ pc[r] # "start") =>
            /\ header[r] = 0
            /\ (pc[r] = "done" => Len(features[r]) = Len(table))

(***************************************************************************)
(* Reference notions for the claim about the column names.                 *)
(***************************************************************************)
\* the name without a trailing _Abundance, _Coverage or _Abundance-RPKs
RefRunName(name) ==
    LET n == Len(name)
    IN  IF n >= 2 /\ name[n] = "-RPKs" /\ name[n - 1] = "_Abundance" THEN SubSeq(name, 1, n - 2)
        ELSE IF n >= 1 /\ name[n] \in {"_Abundance", "_Coverage"} THEN SubSeq(name, 1, n - 1)
        ELSE name

\* C26: the pathway-level and the module-level analysis resolve a column name
\* to the same run name, the name without a trailing _Abundance, _Coverage or
\* _Abundance-RPKs, so a column that the module-level analysis finds in the
\* group table is found by the pathway-level analysis too.
C26_SameColumnNormalization ==
    col_pc = "done" =>
        /\ col_humann = col_module
        /\ col_humann = RefRunName(col_name)
        /\ col_module \in SheetRuns => col_humann \in SheetRuns

(***************************************************************************)
(* Reference notions for the claim about interleaved runs.                 *)
(***************************************************************************)
\* what run r draws when it runs alone: count subsets from a generator made
\* from its seed
AloneDraws(r, count) ==
    SampleMany(RngSeed(args[r].seed, args[r].entropy), AllIdx(keep_samples[r]),
               Len(idx_by_group[r].S), count)

\* C27: in every interleaving of two runs, the subsets a run has drawn so
\* far, and the state of its generator, are those of the run on its own; a
\* step of one run leaves the generator and the subsets of the other alone.
C27_RunsOwnTheirGenerator ==
    \A r \in runs :
        pc[r] \in {"perm", "features", "done"} =>
            \E alone \in {AloneDraws(r, Len(perm_subsets[r]))} :
                /\ perm_subsets[r] = alone.subsets
                /\ rng[r] = alone.rng
                /\ pc[r] # "perm" => Len(perm_subsets[r]) = args[r].n_perm

\* C27 witness: two runs with different seeds are done, each with at least
\* two subsets, and their subset lists differ.
W_C27 ==
    /\ pc[1] = "done"
    /\ pc[2] = "done"
    /\ args[1].seed # args[2].seed
    /\ Len(perm_subsets[1]) >= 2
    /\ perm_subsets[1] # perm_subsets[2]

(***************************************************************************)
(* Reference notions for the claim about the order of the writes in main.  *)
(***************************************************************************)
\* the file that holds the statistics rows
StatsFileOf(stats) == [exists |-> TRUE, rows |-> TsvRows(stats)]

\* the direction file derived from the statistics rows and the external file
DirectionFileOf(stats) ==
    [exists |-> TRUE,
     rows |-> DirectionRows(InnerJoin(ReadStats(TsvRows(stats)), ReadExt(mn_in.ext.rows), 1))]

\* nothing is written before the conservative table; the direction file is
\* not touched before both tables are written; when the direction table is
\* built, reported or has failed, the conservative and the expanded table of
\* this run are at their paths; the direction file is derived from the
\* conservative table of this run
WriteOrderHolds ==
    /\ mn_pc \in {"start", "error_cons"} => mn_fs = mn_in.fs0
    /\ mn_pc \in {"start", "cons", "exp", "error_cons", "error_exp", "error_direction"}
          => mn_fs[mn_in.out_direction] = mn_in.fs0[mn_in.out_direction]
    /\ mn_pc \in {"cons", "error_exp"} => mn_fs[mn_in.out_cons] = StatsFileOf(mn_stats.cons)
    /\ mn_pc \in {"exp", "direction", "ok", "error_direction"} =>
          /\ mn_fs[mn_in.out_cons] = StatsFileOf(mn_stats.cons)
          /\ mn_fs[mn_in.out_exp] = StatsFileOf(mn_stats.exp)
    /\ mn_pc \in {"direction", "ok"} =>
          mn_fs[mn_in.out_direction] = DirectionFileOf(mn_stats.cons)

\* C30 as stated: in every run of main the writes are ordered as above.
C30_WriteOrder == WriteOrderHolds

\* C30, amended: the same in every run whose --out-exp is a path other than
\* its --out-cons.
C30_WriteOrderDistinctPaths == mn_in.out_exp # mn_in.out_cons => WriteOrderHolds

\* C30 witness: a run with different output paths has reported success over
\* older files at its paths; the direction file has a row for M1, with
\* matching directions, and none for the module of the older file, which
\* the external file holds too.
W_C30 ==
    /\ mn_pc = "ok"
    /\ mn_in.out_exp # mn_in.out_cons
    /\ mn_in.fs0[mn_in.out_cons] = OldStatsFile
    /\ \E k \in 1..Len(mn_in.ext.rows) : mn_in.ext.rows[k].module = "M3"
    /\ Len(mn_fs[mn_in.out_direction].rows) = 1
    /\ mn_fs[mn_in.out_direction].rows[1].module = "M1"
    /\ mn_fs[mn_in.out_direction].rows[1].direction_match

====
